---- MODULE Spec2Model ----
(***************************************************************************)
(* The poker engine of royalepoker: the usePokerGame hook                  *)
(* (src/src/hooks/usePokerGame.ts) with its deck, its hand evaluator, its   *)
(* betting state machine and the delayed transitions that follow a hand.   *)
(* Seat indices are 0-based as in the source; sequences are 1-based, so     *)
(* seat i is players[i + 1].                                               *)
(***************************************************************************)
EXTENDS Integers, Sequences, FiniteSets, TLC

\* ------------------------------------------------------------ bounds
\* hands that may be started in one behaviour
MaxHands == 2
\* joinTable calls that add a player in one behaviour
MaxJoins == 3
\* performAction calls in one behaviour
MaxActions == 4
\* calls off the course of a hand in one behaviour: an action out of turn, a
\* startGame while a hand is shown, a leaveTable
MaxRogue == 1
\* delayed transitions (setTimeout) that may be pending at once
MaxTimers == 1

\* ------------------------------------------------------------ inputs
\* the players in the order they come to the table; a name is also the
\* player's address (chainId || playerName with no chain id)
Arrivals == <<"A", "B", "C", "D", "E", "F">>
Names == {Arrivals[k] : k \in 1..MaxJoins}
\* everyone who may press Join, seated or not
Joiners == {Arrivals[k] : k \in DOMAIN Arrivals}
\* the raise amounts a client submits ({ Raise: { amount } })
RaiseAmounts == {100, 1000}
\* what joinTable's chip lookup yields: 0 is "no chips found" (a new player)
ArenaChips == {0}

\* ------------------------------------------------------------ constants
MAX_PLAYERS == 4
ROOKIE_LOUNGE_BUYIN == 1000
NEW_PLAYER_BONUS == 1000
smallBlindAmount == 10
bigBlindAmount == 20

Min(a, b) == IF a < b THEN a ELSE b
Max(a, b) == IF a > b THEN a ELSE b

\* ------------------------------------------------------------ 32-bit words
\* Numbers that do not fit a signed 32-bit integer are kept as two 16-bit
\* limbs <<high, low>>.
W16 == 65536
W15 == 32768

Limbs(x) == <<x \div W16, x % W16>>

\* the character codes (charCodeAt) of the strings that make a seed string
CharCodes(s) ==
    CASE s = "A" -> <<65>>
      [] s = "B" -> <<66>>
      [] s = "C" -> <<67>>
      [] s = "D" -> <<68>>
      [] s = "E" -> <<69>>
      [] s = "F" -> <<70>>
      [] s = ":" -> <<58>>
      [] s = "," -> <<44>>
      [] s = "room-1" -> <<114, 111, 111, 109, 45, 49>>

RECURSIVE DigitCodes(_)
\* String(n) for a non-negative integer, as character codes
DigitCodes(n) ==
    IF n < 10 THEN <<48 + n>> ELSE DigitCodes(n \div 10) \o <<48 + (n % 10)>>

RECURSIVE hashLoop(_, _, _)
\* hash = ((hash << 5) - hash) + char; hash = hash & hash, on the unsigned
\* 32-bit pattern <<h1, h0>> of hash
hashLoop(codes, i, h) ==
    IF i > Len(codes) THEN h
    ELSE LET lo == 31 * h[2] + codes[i]
             hi == 31 * h[1] + (lo \div W16)
         IN hashLoop(codes, i + 1, <<hi % W16, lo % W16>>)

\* Math.abs of the signed reading of the pattern u, as limbs (2^31 is <<32768, 0>>)
AbsInt32(u) ==
    IF u[1] < W15 THEN u
    ELSE IF u[2] = 0 THEN <<W16 - u[1], 0>>
         ELSE <<W16 - 1 - u[1], W16 - u[2]>>

hashString(codes) == AbsInt32(hashLoop(codes, 1, <<0, 0>>))

\* ------------------------------------------------------------ SeededRandom
\* The multiplication and the addition of next() are double-precision: the
\* exact result is rounded to 53 significant bits (ties to even) each time.
\* A value is kept as <<H, L>> = H * 2^31 + L with 0 <= L < 2^31.
LCG_A1 == 16838
LCG_A0 == 20077
LCG_C == 12345
MAX_INT31 == 2147483647

RECURSIVE Pow2(_)
Pow2(k) == IF k = 0 THEN 1 ELSE 2 * Pow2(k - 1)

RECURSIVE BitLen(_)
BitLen(x) == IF x = 0 THEN 0 ELSE 1 + BitLen(x \div 2)

\* seed * 1103515245 exactly, seed given as limbs; 1103515245 = 16838 * 2^16 + 20077
MulA(s) ==
    LET p00 == s[2] * LCG_A0
        cross == s[1] * LCG_A0 + s[2] * LCG_A1
        p11 == s[1] * LCG_A1
        l0 == p00 % W16
        t1 == cross + (p00 \div W16)
        l1 == t1 % W16
        t2 == p11 + (t1 \div W16)
        l2 == t2 % W16
        l3 == t2 \div W16
    IN <<(l1 \div W15) + 2 * l2 + l3 * 131072, (l1 % W15) * W16 + l0>>

\* round v to the nearest double (53 significant bits, ties to even)
RoundDouble(v) ==
    LET k == IF v[1] = 0 THEN 0 ELSE Max(0, 31 + BitLen(v[1]) - 53)
    IN IF k = 0 THEN v
       ELSE LET unit == Pow2(k)
                r == v[2] % unit
                base == v[2] - r
                up == \/ 2 * r > unit
                      \/ 2 * r = unit /\ (v[2] \div unit) % 2 = 1
            IN IF ~up THEN <<v[1], base>>
               ELSE IF base > MAX_INT31 - unit THEN <<v[1] + 1, 0>>
                    ELSE <<v[1], base + unit>>

\* v + 12345 exactly
AddC(v) ==
    IF v[2] > MAX_INT31 - LCG_C THEN <<v[1] + 1, v[2] - (MAX_INT31 - LCG_C) - 1>>
    ELSE <<v[1], v[2] + LCG_C>>

\* SeededRandom.next: the new seed, (seed * 1103515245 + 12345) & 0x7fffffff
nextSeed(s) == RoundDouble(AddC(RoundDouble(MulA(s))))[2]

\* SeededRandom.nextInt(max) on the seed that next() has just stored:
\* Math.floor(seed / 0x7fffffff * max)
nextInt(seed, max) ==
    LET x == (seed % W16) * max
        t == (seed \div W16) * max + (x \div W16)
        q0 == t \div W15
        r0 == (t % W15) * W16 + (x % W16)
    IN IF r0 >= MAX_INT31 - q0 THEN q0 + 1 ELSE q0

\* ------------------------------------------------------------ deck
\* A card is its index in createDeck's order: suit-major, 13 ranks per suit.
\* Undefined is what reading an array out of range yields.
Undefined == -1
DECK_SIZE == 52

\* getCardValue with the ace counted low
getCardValueAceLow(c) == IF c % 13 = 12 THEN 1 ELSE (c % 13) + 2

getCardValue(c) == (c % 13) + 2
cardSuit(c) == c \div 13
createDeck == [k \in 1..DECK_SIZE |-> k - 1]

\* deck[i] of a JS array held as a sequence
At(deck, i) == IF i + 1 \in DOMAIN deck THEN deck[i + 1] ELSE Undefined

\* variant of Swap: deck[i] = deck[j] alone, deck[j] keeps its card
SwapOneWay(deck, i, j) == [deck EXCEPT ![i + 1] = At(deck, j)]

\* [deck[i], deck[j]] = [deck[j], deck[i]]; writing past the end grows the array
Swap(deck, i, j) ==
    LET d == IF j + 1 \in DOMAIN deck THEN deck ELSE Append(deck, Undefined)
    IN [d EXCEPT ![i + 1] = At(deck, j), ![j + 1] = At(deck, i)]

\* one iteration of the Fisher-Yates loop on its state: the deck, the
\* generator's seed (limbs) and the index i
shuffleStep(st) ==
    LET s == nextSeed(st.seed)
        j == nextInt(s, st.i + 1)
    IN [deck |-> Swap(st.deck, st.i, j), seed |-> Limbs(s), i |-> st.i - 1]

RECURSIVE shuffleLoop(_)
shuffleLoop(st) == IF st.i <= 0 THEN st.deck ELSE shuffleLoop(shuffleStep(st))

\* Fisher-Yates shuffle with seed (limbs), i from deck.length - 1 down to 1
shuffleDeck(seed) ==
    shuffleLoop([deck |-> createDeck, seed |-> seed, i |-> DECK_SIZE - 1])

\* the player addresses sorted (Array.prototype.sort: by code units) and joined
RECURSIVE sortedJoin(_)
sortedJoin(addrs) ==
    IF addrs = {} THEN <<>>
    ELSE LET m == CHOOSE a \in addrs : \A b \in addrs : CharCodes(a)[1] <= CharCodes(b)[1]
         IN CharCodes(m) \o (IF addrs = {m} THEN <<>>
                             ELSE CharCodes(",") \o sortedJoin(addrs \ {m}))

tableId == "room-1"

generateHandSeed(tid, handNumber, playerAddresses) ==
    hashString(CharCodes(tid) \o CharCodes(":") \o DigitCodes(handNumber)
               \o CharCodes(":") \o sortedJoin(playerAddresses))

\* Deal cards from shuffled deck
\* variant of dealCards: no card is burned before the flop, turn and river
dealCardsNoBurn(deck, playerCount) ==
    LET base == 2 * playerCount
    IN [playerCards |-> [p \in 1..playerCount |->
                            <<At(deck, 2 * (p - 1)), At(deck, 2 * (p - 1) + 1)>>],
        communityCards |-> <<At(deck, base), At(deck, base + 1), At(deck, base + 2),
                             At(deck, base + 3), At(deck, base + 4)>>]

dealCards(deck, playerCount) ==
    LET base == 2 * playerCount
    IN [playerCards |-> [p \in 1..playerCount |->
                            <<At(deck, 2 * (p - 1)), At(deck, 2 * (p - 1) + 1)>>],
        communityCards |-> <<At(deck, base + 1), At(deck, base + 2), At(deck, base + 3),
                             At(deck, base + 5), At(deck, base + 7)>>]

\* The deals of the hands this table can see, computed once: shuffleDeck and
\* dealCards are pure, so startGame's deal for (handNumber, addresses) is the
\* entry of this table.
Tables ==
    {S \in SUBSET {Arrivals[k] : k \in 1..Max(MaxJoins, MAX_PLAYERS)} :
        Cardinality(S) >= 2}
DealtCards ==
    {[handNumber |-> h, addresses |-> S,
      dealt |-> dealCards(shuffleDeck(generateHandSeed(tableId, h, S)), Cardinality(S))] :
        h \in 1..(MaxHands + 1), S \in Tables}

dealtFor(handNumber, addresses) ==
    (CHOOSE d \in DealtCards : d.handNumber = handNumber /\ d.addresses = addresses).dealt

\* ------------------------------------------------------------ hand evaluation
HIGH_CARD == 1
ONE_PAIR == 2
TWO_PAIR == 3
THREE_OF_A_KIND == 4
STRAIGHT == 5
FLUSH == 6
FULL_HOUSE == 7
FOUR_OF_A_KIND == 8
STRAIGHT_FLUSH == 9
ROYAL_FLUSH == 10

\* the elements of the set S of integers in descending order
RECURSIVE SortDesc(_)
SortDesc(S) ==
    IF S = {} THEN <<>>
    ELSE LET m == CHOOSE a \in S : \A b \in S : a >= b
         IN <<m>> \o SortDesc(S \ {m})

\* seq[i] || 0
OrZero(seq, i) == IF i \in DOMAIN seq THEN seq[i] ELSE 0

\* Evaluate a 5-card hand and return [rank, highCards]
evaluate5Cards(cards) ==
    LET n == Len(cards)
        \* values sorted descending, duplicates kept: sort the pairs <<value, position>>
        keyed == SortDesc({getCardValue(cards[i]) * 8 + i : i \in 1..n})
        values == [i \in 1..n |-> keyed[i] \div 8]
        isFlush == \A i \in 1..n : cardSuit(cards[i]) = cardSuit(cards[1])
        uniqueValues == SortDesc({values[i] : i \in 1..n})
        plain == Len(uniqueValues) = 5 /\ uniqueValues[1] - uniqueValues[5] = 4
        wheel == Len(uniqueValues) = 5 /\ uniqueValues[1] = 14
                 /\ uniqueValues[2] = 5 /\ uniqueValues[5] = 2
        isStraight == plain \/ wheel
        straightHigh == IF wheel THEN 5 ELSE IF plain THEN uniqueValues[1] ELSE 0
        count(v) == Cardinality({i \in 1..n : values[i] = v})
        \* the entries of counts sorted by count, then by value, descending
        order == SortDesc({count(v) * 16 + v : v \in {values[i] : i \in 1..n}})
        cvValue(k) == order[k] % 16
        cvCount(k) == IF k \in DOMAIN order THEN order[k] \div 16 ELSE 0
        without(S) == SelectSeq(values, LAMBDA v : v \notin S)
    IN IF isStraight /\ isFlush
       THEN IF straightHigh = 14 THEN [rank |-> ROYAL_FLUSH, highCards |-> <<14>>]
            ELSE [rank |-> STRAIGHT_FLUSH, highCards |-> <<straightHigh>>]
       ELSE IF cvCount(1) = 4
       THEN [rank |-> FOUR_OF_A_KIND, highCards |-> <<cvValue(1), cvValue(2)>>]
       ELSE IF cvCount(1) = 3 /\ cvCount(2) = 2
       THEN [rank |-> FULL_HOUSE, highCards |-> <<cvValue(1), cvValue(2)>>]
       ELSE IF isFlush THEN [rank |-> FLUSH, highCards |-> values]
       ELSE IF isStraight THEN [rank |-> STRAIGHT, highCards |-> <<straightHigh>>]
       ELSE IF cvCount(1) = 3
       THEN [rank |-> THREE_OF_A_KIND,
             highCards |-> <<cvValue(1)>> \o without({cvValue(1)})]
       ELSE IF cvCount(1) = 2 /\ cvCount(2) = 2
       THEN LET pairs == SortDesc({cvValue(1), cvValue(2)})
            IN [rank |-> TWO_PAIR,
                highCards |-> pairs \o <<OrZero(without({pairs[1], pairs[2]}), 1)>>]
       ELSE IF cvCount(1) = 2
       THEN [rank |-> ONE_PAIR, highCards |-> <<cvValue(1)>> \o without({cvValue(1)})]
       ELSE [rank |-> HIGH_CARD, highCards |-> values]

\* Get all size-card combinations of n cards, as index sequences in the order
\* the recursion produces them
RECURSIVE combine(_, _, _, _)
combine(n, size, start, combo) ==
    IF Len(combo) = size THEN <<combo>>
    ELSE IF start > n THEN <<>>
    ELSE combine(n, size, start + 1, Append(combo, start))
         \o combine(n, size, start + 1, combo)

getCombinations(n, size) == combine(n, size, 1, <<>>)

\* the comparison evaluateBestHand makes: does hand replace bestHand
RECURSIVE beatsFrom(_, _, _)
beatsFrom(hand, bestHand, i) ==
    IF i > Len(hand.highCards) THEN FALSE
    ELSE IF hand.highCards[i] > OrZero(bestHand.highCards, i) THEN TRUE
    ELSE IF hand.highCards[i] < OrZero(bestHand.highCards, i) THEN FALSE
    ELSE beatsFrom(hand, bestHand, i + 1)

replacesBest(hand, bestHand) ==
    \/ hand.rank > bestHand.rank
    \/ hand.rank = bestHand.rank /\ beatsFrom(hand, bestHand, 1)

RECURSIVE bestOf(_, _, _, _)
bestOf(allCards, combos, k, bestHand) ==
    IF k > Len(combos) THEN bestHand
    ELSE LET hand == evaluate5Cards([i \in 1..5 |-> allCards[combos[k][i]]])
         IN bestOf(allCards, combos, k + 1,
                   IF replacesBest(hand, bestHand) THEN hand ELSE bestHand)

\* Evaluate best 5-card hand from 7 cards (2 hole + 5 community)
evaluateBestHand(holeCards, communityCards) ==
    LET allCards == holeCards \o communityCards
    IN bestOf(allCards, getCombinations(Len(allCards), 5), 1,
              [rank |-> 0, highCards |-> <<0>>])

\* the comparison of the kickers that stops where the shorter list ends
RECURSIVE compareFromShort(_, _, _)
compareFromShort(hand1, hand2, i) ==
    IF i > Min(Len(hand1.highCards), Len(hand2.highCards)) THEN 0
    ELSE IF hand1.highCards[i] # hand2.highCards[i]
    THEN (IF hand1.highCards[i] > hand2.highCards[i] THEN 1 ELSE -1)
    ELSE compareFromShort(hand1, hand2, i + 1)

\* Compare two hands, return 1 if hand1 wins, -1 if hand2 wins, 0 if tie
RECURSIVE compareFrom(_, _, _)
compareFrom(hand1, hand2, i) ==
    IF i > Max(Len(hand1.highCards), Len(hand2.highCards)) THEN 0
    ELSE LET h1 == OrZero(hand1.highCards, i)
             h2 == OrZero(hand2.highCards, i)
         IN IF h1 # h2 THEN (IF h1 > h2 THEN 1 ELSE -1)
            ELSE compareFrom(hand1, hand2, i + 1)

compareHands(hand1, hand2) ==
    IF hand1.rank # hand2.rank THEN (IF hand1.rank > hand2.rank THEN 1 ELSE -1)
    ELSE compareFrom(hand1, hand2, 1)


\* ------------------------------------------------------------ table state
\* gameState is the hook's PokerGameState; the display-only fields
\* (tableName, showdownCards, leaderboard) are left out. An absent winner or
\* dealtCards is NoWinner or NoDeal.
\* committed and holeCards are bookkeeping the hook does not keep: what each
\* player has put into the pot since the last deal, and the two cards the
\* deal gave the player. decks are the decks shuffleDeck has returned to a
\* caller that asks for the same seed again.
VARIABLES gameState, error, timers, last, used, committed, holeCards, decks,
          cards, scored,
          views, stored, uplink, downlink, awaiting, timeLeft,
          globalLeaderboard, tabs, ops

\* what the browsers of the players and the WebSocket server hold
syncVars == <<views, stored, uplink, downlink, awaiting, timeLeft,
              globalLeaderboard, tabs, ops>>

vars == <<gameState, error, timers, last, used, committed, holeCards, decks,
          cards, scored, syncVars>>

\* nothing has been evaluated yet
NotScored == [fn |-> "", value |-> <<>>]

NoWinner == [name |-> "", amount |-> 0, reason |-> "none", handRank |-> 0]
NoDeal == [playerCards |-> <<>>, communityCards |-> <<>>]
NoError == ""

Actions == {"fold", "check", "call", "raise", "allin"}

getDefaultState ==
    [players |-> <<>>, pot |-> 0, communityCards |-> <<>>, phase |-> "Waiting",
     currentBet |-> 0, dealerPosition |-> 0, currentPlayerIndex |-> 0,
     playerCount |-> 0, handNumber |-> 0, handSeed |-> <<0, 0>>,
     dealtCards |-> NoDeal, winner |-> NoWinner]

\* players.findIndex(p => p.name === name): 0-based, -1 when none
findIndex(players, name) ==
    IF \E i \in DOMAIN players : players[i].name = name
    THEN (CHOOSE i \in DOMAIN players :
              players[i].name = name /\ \A k \in 1..(i - 1) : players[k].name # name) - 1
    ELSE -1

RECURSIVE SumOf(_, _)
SumOf(f, i) == IF i = 0 THEN 0 ELSE f[i] + SumOf(f, i - 1)
SumChips(players) == SumOf([i \in DOMAIN players |-> players[i].chips], Len(players))
SumBets(players) == SumOf([i \in DOMAIN players |-> players[i].currentBet], Len(players))

\* players.find(p => p.name === name), for a name that is seated
playerNamed(players, name) ==
    players[CHOOSE i \in DOMAIN players : players[i].name = name]

isActive(p) == p.status = "Active" \/ p.status = "AllIn"
notFolded(p) == p.status # "Folded"
hasChips(p) == p.chips > 0


\* ------------------------------------------------------------ joinTable
\* The chip lookup (Arena, then localStorage) is the environment's: found is
\* the balance it yields, 0 for a new player.
\* variant of joinTable: a full table turns the player away without an error
joinTableSilent(gs, playerName, buyIn, found) ==
    IF \E i \in DOMAIN gs.players : gs.players[i].name = playerName
    THEN [ok |-> TRUE, error |-> NoError, state |-> gs, added |-> FALSE]
    ELSE IF Len(gs.players) >= MAX_PLAYERS
    THEN [ok |-> FALSE, error |-> NoError, state |-> gs, added |-> FALSE]
    ELSE LET newPlayer == [name |-> playerName, chips |-> NEW_PLAYER_BONUS,
                           status |-> "Active", currentBet |-> 0]
         IN [ok |-> TRUE, error |-> NoError, added |-> TRUE,
             state |-> [gs EXCEPT !.players = Append(gs.players, newPlayer),
                                  !.playerCount = Len(gs.players) + 1]]

joinTable(gs, playerName, buyIn, found) ==
    IF \E i \in DOMAIN gs.players : gs.players[i].name = playerName
    THEN [ok |-> TRUE, error |-> NoError, state |-> gs, added |-> FALSE]
    ELSE IF Len(gs.players) >= MAX_PLAYERS
    THEN [ok |-> FALSE, error |-> "Table is full", state |-> gs, added |-> FALSE]
    ELSE IF found <= 0 /\ buyIn # ROOKIE_LOUNGE_BUYIN
    THEN [ok |-> FALSE, error |-> "New players can only join Rookie Lounge",
          state |-> gs, added |-> FALSE]
    ELSE IF found > 0 /\ found < buyIn
    THEN [ok |-> FALSE, error |-> "Insufficient chips", state |-> gs, added |-> FALSE]
    ELSE LET playerChips == IF found > 0 THEN found ELSE NEW_PLAYER_BONUS
             newPlayer == [name |-> playerName, chips |-> playerChips,
                           status |-> "Active", currentBet |-> 0]
         IN [ok |-> TRUE, error |-> NoError, added |-> TRUE,
             state |-> [gs EXCEPT !.players = Append(gs.players, newPlayer),
                                  !.playerCount = Len(gs.players) + 1]]

\* ------------------------------------------------------------ startGame
\* variant of postBlinds: the two blind seats pay each other's blind
postBlindsSwapped(players, smallBlindPos, bigBlindPos) ==
    [idx \in DOMAIN players |->
        IF idx - 1 = smallBlindPos
        THEN [players[idx] EXCEPT !.chips = @ - bigBlindAmount,
                                  !.currentBet = bigBlindAmount, !.status = "Active"]
        ELSE IF idx - 1 = bigBlindPos
        THEN [players[idx] EXCEPT !.chips = @ - smallBlindAmount,
                                  !.currentBet = smallBlindAmount, !.status = "Active"]
        ELSE [players[idx] EXCEPT !.currentBet = 0, !.status = "Active"]]

\* Post blinds based on position relative to dealer
postBlinds(players, smallBlindPos, bigBlindPos) ==
    [idx \in DOMAIN players |->
        IF idx - 1 = smallBlindPos
        THEN [players[idx] EXCEPT !.chips = @ - smallBlindAmount,
                                  !.currentBet = smallBlindAmount, !.status = "Active"]
        ELSE IF idx - 1 = bigBlindPos
        THEN [players[idx] EXCEPT !.chips = @ - bigBlindAmount,
                                  !.currentBet = bigBlindAmount, !.status = "Active"]
        ELSE [players[idx] EXCEPT !.currentBet = 0, !.status = "Active"]]

startGame(gs) ==
    IF Len(gs.players) < 2
    THEN [error |-> "Need at least 2 players to start", state |-> gs]
    ELSE LET newHandNumber == gs.handNumber + 1
             playerAddresses == {gs.players[i].name : i \in DOMAIN gs.players}
             handSeed == generateHandSeed(tableId, newHandNumber, playerAddresses)
             numPlayers == Len(gs.players)
             dealt == dealtFor(newHandNumber, playerAddresses)
             newDealerPosition == (gs.dealerPosition + 1) % numPlayers
             smallBlindPos == IF numPlayers = 2 THEN newDealerPosition
                              ELSE (newDealerPosition + 1) % numPlayers
             bigBlindPos == IF numPlayers = 2 THEN (newDealerPosition + 1) % numPlayers
                            ELSE (newDealerPosition + 2) % numPlayers
             firstToAct == IF numPlayers = 2 THEN smallBlindPos
                           ELSE (bigBlindPos + 1) % numPlayers
         IN [error |-> NoError,
             state |-> [gs EXCEPT
                 !.phase = "PreFlop",
                 !.pot = smallBlindAmount + bigBlindAmount,
                 !.currentBet = bigBlindAmount,
                 !.dealerPosition = newDealerPosition,
                 !.currentPlayerIndex = firstToAct,
                 !.communityCards = <<>>,
                 !.handNumber = newHandNumber,
                 !.handSeed = handSeed,
                 !.dealtCards = dealt,
                 !.players = postBlinds(gs.players, smallBlindPos, bigBlindPos)]]

\* ------------------------------------------------------------ leaveTable
leaveTable(gs, name) ==
    [gs EXCEPT !.players = SelectSeq(gs.players, LAMBDA p : p.name # name),
               !.playerCount = Max(0, gs.playerCount - 1)]

\* ------------------------------------------------------------ performAction
\* Validate player has chips (except for fold/check)
\* variant of effectiveAction: the action is taken as it was requested
effectiveActionAsAsked(p, actionStr) == actionStr

effectiveAction(p, actionStr) ==
    IF p.chips <= 0 /\ actionStr \notin {"fold", "check"} THEN "fold" ELSE actionStr

\* variant of callAmount: the call is not capped by the caller's stack
callAmountUncapped(p, tableBet) == Max(0, tableBet - p.currentBet)

callAmount(p, tableBet) == Min(p.chips, Max(0, tableBet - p.currentBet))

\* variant of raiseTotalBet: the raise is not capped by the raiser's stack
raiseTotalBetUncapped(p, tableBet, amount) ==
    Max(0, tableBet - p.currentBet) + amount

raiseTotalBet(p, tableBet, amount) ==
    LET callFirst == Max(0, tableBet - p.currentBet)
        maxRaise == Max(0, p.chips - callFirst)
        actualRaise == Min(amount, maxRaise)
    IN Min(p.chips, callFirst + actualRaise)

allInAmount(p) == Max(0, p.chips)

\* variant of potIncreaseOf: the pot takes a call twice
potIncreaseOfDouble(p, actionStr, amount, tableBet) ==
    CASE actionStr = "call" -> 2 * callAmount(p, tableBet)
      [] actionStr = "raise" -> raiseTotalBet(p, tableBet, amount)
      [] actionStr = "allin" -> allInAmount(p)
      [] OTHER -> 0

\* what the action pays into the pot
potIncreaseOf(p, actionStr, amount, tableBet) ==
    CASE actionStr = "call" -> callAmount(p, tableBet)
      [] actionStr = "raise" -> raiseTotalBet(p, tableBet, amount)
      [] actionStr = "allin" -> allInAmount(p)
      [] OTHER -> 0

\* the table's current bet after the action
newTableBetOf(p, actionStr, amount, tableBet) ==
    CASE actionStr = "raise" -> p.currentBet + raiseTotalBet(p, tableBet, amount)
      [] actionStr = "allin" ->
            IF p.currentBet + allInAmount(p) > tableBet
            THEN p.currentBet + allInAmount(p) ELSE tableBet
      [] OTHER -> tableBet

\* variant of updatedPlayer: a call raises the bet and leaves the stack alone
updatedPlayerKeepsChips(p, actionStr, amount, tableBet) ==
    CASE actionStr = "fold" -> [p EXCEPT !.status = "Folded"]
      [] actionStr = "check" -> p
      [] actionStr = "call" ->
            [p EXCEPT !.currentBet = p.currentBet + callAmount(p, tableBet)]
      [] actionStr = "raise" ->
            LET totalBet == raiseTotalBet(p, tableBet, amount)
                newChips == Max(0, p.chips - totalBet)
            IN [p EXCEPT !.chips = newChips,
                         !.currentBet = p.currentBet + totalBet,
                         !.status = IF newChips = 0 THEN "AllIn" ELSE p.status]
      [] actionStr = "allin" ->
            [p EXCEPT !.chips = 0,
                      !.currentBet = p.currentBet + allInAmount(p),
                      !.status = "AllIn"]

\* the acting player after the action
updatedPlayer(p, actionStr, amount, tableBet) ==
    CASE actionStr = "fold" -> [p EXCEPT !.status = "Folded"]
      [] actionStr = "check" -> p
      [] actionStr = "call" ->
            LET newChips == Max(0, p.chips - callAmount(p, tableBet))
            IN [p EXCEPT !.chips = newChips,
                         !.currentBet = p.currentBet + callAmount(p, tableBet),
                         !.status = IF newChips = 0 THEN "AllIn" ELSE p.status]
      [] actionStr = "raise" ->
            LET totalBet == raiseTotalBet(p, tableBet, amount)
                newChips == Max(0, p.chips - totalBet)
            IN [p EXCEPT !.chips = newChips,
                         !.currentBet = p.currentBet + totalBet,
                         !.status = IF newChips = 0 THEN "AllIn" ELSE p.status]
      [] actionStr = "allin" ->
            [p EXCEPT !.chips = 0,
                      !.currentBet = p.currentBet + allInAmount(p),
                      !.status = "AllIn"]


\* variant of awardPot: the winner is named and the pot is not paid
awardPotNoChips(players, winnerName, totalPot) ==
    [i \in DOMAIN players |->
        [players[i] EXCEPT !.currentBet = 0,
                           !.status = IF players[i].chips > 0 THEN "Active"
                                      ELSE "Folded"]]

\* the players after a hand is won by winnerName: the pot is paid, bets are
\* cleared, a player without chips is marked Folded
awardPot(players, winnerName, totalPot) ==
    [i \in DOMAIN players |->
        IF players[i].name = winnerName
        THEN [players[i] EXCEPT !.chips = @ + totalPot, !.currentBet = 0,
                                !.status = "Active"]
        ELSE [players[i] EXCEPT !.currentBet = 0,
                                !.status = IF players[i].chips > 0 THEN "Active"
                                           ELSE "Folded"]]

\* Check for winner (only one player left not folded)
foldWinState(gs, updatedPlayers, potIncrease) ==
    LET winner == SelectSeq(updatedPlayers, notFolded)[1]
        totalPot == gs.pot + potIncrease
    IN [gs EXCEPT !.players = awardPot(updatedPlayers, winner.name, totalPot),
                  !.pot = 0, !.currentBet = 0, !.phase = "Winner",
                  !.winner = [name |-> winner.name, amount |-> totalPot,
                              reason |-> "fold", handRank |-> 0]]

\* All active players must have matched the current bet (or be all-in)
allPlayersMatched(activePlayers, newTableBet) ==
    \A i \in DOMAIN activePlayers :
        activePlayers[i].currentBet = newTableBet \/ activePlayers[i].status = "AllIn"

\* variant of isClosingAction: every action may close the round
isClosingActionAny(actionStr) == actionStr \in Actions

isClosingAction(actionStr) == actionStr \in {"check", "call", "fold"}

phases == <<"PreFlop", "Flop", "Turn", "River", "Showdown">>

\* phases.indexOf(phase), 0-based, -1 when absent
phaseIndex(phase) ==
    IF \E k \in DOMAIN phases : phases[k] = phase
    THEN (CHOOSE k \in DOMAIN phases : phases[k] = phase) - 1
    ELSE -1

\* Deal community cards based on phase transition
dealCommunity(newPhase, communityCards, preDealtCards) ==
    CASE newPhase = "Flop" /\ Len(communityCards) = 0 ->
            SubSeq(preDealtCards, 1, Min(3, Len(preDealtCards)))
      [] newPhase = "Turn" /\ Len(communityCards) = 3 ->
            IF At(preDealtCards, 3) # Undefined
            THEN Append(communityCards, At(preDealtCards, 3)) ELSE communityCards
      [] newPhase = "River" /\ Len(communityCards) = 4 ->
            IF At(preDealtCards, 4) # Undefined
            THEN Append(communityCards, At(preDealtCards, 4)) ELSE communityCards
      [] OTHER -> communityCards

\* the hole cards looked up for the player at seat playerIdx (0-based)
holeCardsOf(dealtCards, playerIdx) ==
    IF playerIdx + 1 \in DOMAIN dealtCards.playerCards
    THEN dealtCards.playerCards[playerIdx + 1] ELSE <<>>

\* Find the winner(s): the index, among the hands, of winners[0]
RECURSIVE firstWinner(_, _, _)
firstWinner(hands, i, w) ==
    IF i > Len(hands) THEN w
    ELSE firstWinner(hands, i + 1,
                     IF compareHands(hands[i], hands[w]) > 0 THEN i ELSE w)

\* evaluate5Cards reads card.rank: an undefined card among five or more throws
showdownThrows(gs, updatedPlayers) ==
    \E i \in DOMAIN updatedPlayers :
        /\ notFolded(updatedPlayers[i])
        /\ LET allCards == holeCardsOf(gs.dealtCards, i - 1) \o gs.communityCards
           IN Len(allCards) >= 5 /\ \E k \in DOMAIN allCards : allCards[k] = Undefined

showdownState(gs, updatedPlayers, potIncrease) ==
    LET playersInShowdown == SelectSeq(updatedPlayers, notFolded)
        playerHands == [k \in DOMAIN playersInShowdown |->
            evaluateBestHand(
                holeCardsOf(gs.dealtCards,
                            findIndex(updatedPlayers, playersInShowdown[k].name)),
                gs.communityCards)]
        w == firstWinner(playerHands, 2, 1)
        winner == playersInShowdown[w]
        totalPot == gs.pot + potIncrease
    IN [gs EXCEPT !.players = awardPot(updatedPlayers, winner.name, totalPot),
                  !.pot = 0, !.currentBet = 0, !.phase = "Winner",
                  !.currentPlayerIndex = 0,
                  !.winner = [name |-> winner.name, amount |-> totalPot,
                              reason |-> "showdown", handRank |-> playerHands[w].rank]]

\* Determine first-to-act for new phase: first active player after the dealer
RECURSIVE firstToActFrom(_, _, _, _)
firstToActFrom(players, dealerPos, i, fallback) ==
    IF i > Len(players) THEN fallback
    ELSE LET checkPos == (dealerPos + i) % Len(players)
         IN IF isActive(players[checkPos + 1]) THEN checkPos
            ELSE firstToActFrom(players, dealerPos, i + 1, fallback)

\* performAction(action, playerName) on the snapshot gs. result is what the
\* call did: "notfound", "threw", "foldwin", "showdown", "advance" or "next";
\* armed tells whether a delayed transition was scheduled on state.
performAction(gs, name, action, amount) ==
    LET idx == findIndex(gs.players, name)
    IN IF idx < 0
       THEN [result |-> "notfound", state |-> gs, armed |-> FALSE, error |-> NoError]
       ELSE
       LET actingPlayer == gs.players[idx + 1]
           actionStr == effectiveAction(actingPlayer, action)
           potIncrease == potIncreaseOf(actingPlayer, actionStr, amount, gs.currentBet)
           newTableBet == newTableBetOf(actingPlayer, actionStr, amount, gs.currentBet)
           updatedPlayers ==
               [i \in DOMAIN gs.players |->
                   IF gs.players[i].name = name
                   THEN updatedPlayer(gs.players[i], actionStr, amount, gs.currentBet)
                   ELSE gs.players[i]]
           playersStillIn == SelectSeq(updatedPlayers, notFolded)
           activePlayers == SelectSeq(updatedPlayers, isActive)
           currentPlayerIdx == findIndex(activePlayers, name)
           nextPlayerIndex == IF Len(activePlayers) > 0
                              THEN (currentPlayerIdx + 1) % Len(activePlayers) ELSE 0
           bettingRoundComplete == /\ allPlayersMatched(activePlayers, newTableBet)
                                   /\ isClosingAction(actionStr)
           currentPhaseIdx == phaseIndex(gs.phase)
           advancing == /\ bettingRoundComplete
                        /\ Len(activePlayers) > 1
                        /\ currentPhaseIdx < Len(phases) - 1
           newPhase == IF advancing THEN phases[currentPhaseIdx + 2] ELSE gs.phase
           resetBets == advancing
           newCommunityCards ==
               IF advancing
               THEN dealCommunity(newPhase, gs.communityCards,
                                  gs.dealtCards.communityCards)
               ELSE gs.communityCards
           finalPlayers == IF resetBets
                           THEN [i \in DOMAIN updatedPlayers |->
                                    [updatedPlayers[i] EXCEPT !.currentBet = 0]]
                           ELSE updatedPlayers
           newCurrentPlayerIndex ==
               IF resetBets /\ newPhase # "Showdown"
               THEN firstToActFrom(finalPlayers, gs.dealerPosition, 1, nextPlayerIndex)
               ELSE nextPlayerIndex
       IN IF Len(playersStillIn) = 1
          THEN [result |-> "foldwin", armed |-> TRUE, error |-> NoError,
                state |-> foldWinState(gs, updatedPlayers, potIncrease)]
          ELSE IF advancing /\ newPhase = "Showdown"
          THEN IF showdownThrows(gs, updatedPlayers)
               THEN [result |-> "threw", state |-> gs, armed |-> FALSE,
                     error |-> "Failed to perform action"]
               ELSE [result |-> "showdown", armed |-> TRUE, error |-> NoError,
                     state |-> showdownState(gs, updatedPlayers, potIncrease)]
          ELSE [result |-> IF advancing THEN "advance" ELSE "next",
                armed |-> FALSE, error |-> NoError,
                state |-> [gs EXCEPT !.players = finalPlayers,
                                     !.pot = gs.pot + potIncrease,
                                     !.currentBet = IF resetBets THEN 0 ELSE newTableBet,
                                     !.currentPlayerIndex = newCurrentPlayerIndex,
                                     !.phase = newPhase,
                                     !.communityCards = newCommunityCards]]

\* ------------------------------------------------------------ delayed transitions
\* After 5 seconds, decide next action, on the state captured when the hand ended
nextHandState(winState) ==
    [winState EXCEPT
        !.phase = "ReadyForNextHand", !.communityCards = <<>>, !.winner = NoWinner,
        !.players = [i \in DOMAIN winState.players |->
            [winState.players[i] EXCEPT
                !.status = IF winState.players[i].chips > 0 THEN "Active" ELSE "Out",
                !.currentBet = 0]]]

gameOverState(winState) ==
    [winState EXCEPT !.phase = "GameOver", !.communityCards = <<>>]

resetState(overState) ==
    [overState EXCEPT !.phase = "Waiting", !.winner = NoWinner, !.players = <<>>,
                      !.playerCount = 0]


\* ------------------------------------------------------------ the client's screen
\* Calculate whose turn it is: the action bar is shown outside Waiting and its
\* buttons are enabled for the player the screen takes to be the current one.
currentPlayerOf(gs) ==
    LET activePlayers == SelectSeq(gs.players, isActive)
        currentPlayerIdx == gs.currentPlayerIndex % Max(1, Len(activePlayers))
    IN IF currentPlayerIdx + 1 \in DOMAIN activePlayers
       THEN activePlayers[currentPlayerIdx + 1].name ELSE ""

isMyTurn(gs, playerName) == currentPlayerOf(gs) = playerName

actionBarShown(gs) == gs.phase # "Waiting"

\* the screens that offer the Deal button
dealOffered(gs) == gs.phase \in {"Waiting", "ReadyForNextHand"}

\* ------------------------------------------------------------ the table's operations
\* last is the call that produced the state: for performAction who acted, the
\* action requested, what the call did and the state it was made on; for
\* joinTable and startGame (kind "") who called, what the call did ("joined",
\* "refused", "started", "notstarted") and the state it was made on; NoOp
\* after a join by a seated player, leaveTable and a timer. used counts the calls the bounds cap.
NoOp == [name |-> "", kind |-> "", amount |-> 0, result |-> "",
         state |-> getDefaultState]

\* the browsers: the one named n is where player n plays
Clients == {"A", "B"}

\* the seconds a turn's countdown starts from
TURN_SECONDS == 20

\* no leaderboard entry for anybody
NoEntries == [n \in Clients |-> Undefined]

\* nothing received since the browser last changed the table itself
NotReceived == [any |-> FALSE]

\* every hook as it is constructed, the server without a stored state
syncIdle ==
    /\ views = [c \in Clients |->
                  [state |-> getDefaultState, by |-> {}, got |-> NotReceived]]
    /\ stored = <<>>
    /\ uplink = [c \in Clients |-> <<>>]
    /\ downlink = [c \in Clients |-> <<>>]
    /\ awaiting = [c \in Clients |-> <<>>]
    /\ timeLeft = [c \in Clients |-> TURN_SECONDS]
    /\ globalLeaderboard = [c \in Clients |-> NoEntries]
    /\ tabs = [c \in Clients |-> "lobby"]
    /\ ops = <<>>

NoneCommitted == [n \in Joiners |-> 0]

\* what the blinds of a deal took from each player
committedAtDeal(gs) ==
    [n \in Joiners |->
        IF \E i \in DOMAIN gs.players : gs.players[i].name = n
        THEN playerNamed(gs.players, n).currentBet ELSE 0]

NoCards == [n \in Joiners |-> <<>>]

\* the cards a deal gives each seated player: playerCards[seat]
holeCardsAtDeal(gs) ==
    [n \in Joiners |-> holeCardsOf(gs.dealtCards, findIndex(gs.players, n))]

\* what performAction(gs, name, action, amount) adds to the pot
paidBy(gs, name, action, amount) ==
    IF findIndex(gs.players, name) < 0 THEN 0
    ELSE LET p == playerNamed(gs.players, name)
         IN potIncreaseOf(p, effectiveAction(p, action), amount, gs.currentBet)

Init ==
    /\ gameState = getDefaultState
    /\ error = NoError
    /\ timers = <<>>
    /\ last = NoOp
    /\ used = [joins |-> 0, actions |-> 0, rogue |-> 0]
    /\ committed = NoneCommitted
    /\ holeCards = NoCards
    /\ decks = <<>>
    /\ cards = <<>>
    /\ scored = NotScored
    /\ syncIdle

\* the next player to arrive joins, or a seated player presses Join again
JoinTable(n, buyIn, found) ==
    LET r == joinTable(gameState, n, buyIn, found)
    IN /\ r.added => used.joins < MaxJoins /\ n = Arrivals[used.joins + 1]
       /\ gameState' = r.state
       /\ error' = r.error
       /\ used' = IF r.added THEN [used EXCEPT !.joins = @ + 1] ELSE used
       /\ last' = IF r.ok /\ ~r.added THEN NoOp
                  ELSE [name |-> n, kind |-> "", amount |-> 0,
                        result |-> IF r.added THEN "joined" ELSE "refused",
                        state |-> gameState]
       /\ UNCHANGED <<timers, committed, holeCards, decks, cards, scored, syncVars>>

StartGame ==
    LET r == startGame(gameState)
        rogue == ~dealOffered(gameState)
    IN /\ r.error = NoError => gameState.handNumber < MaxHands
       /\ rogue => used.rogue < MaxRogue
       /\ gameState' = r.state
       /\ error' = r.error
       /\ used' = IF rogue THEN [used EXCEPT !.rogue = @ + 1] ELSE used
       /\ last' = [name |-> "", kind |-> "", amount |-> 0,
                   result |-> IF r.error = NoError THEN "started" ELSE "notstarted",
                   state |-> gameState]
       /\ committed' = IF r.error = NoError THEN committedAtDeal(r.state)
                       ELSE committed
       /\ holeCards' = IF r.error = NoError THEN holeCardsAtDeal(r.state)
                       ELSE holeCards
       /\ UNCHANGED <<timers, decks, cards, scored, syncVars>>

PlayerAction(n, kind, amount) ==
    LET r == performAction(gameState, n, kind, amount)
        rogue == ~(actionBarShown(gameState) /\ isMyTurn(gameState, n))
    IN /\ used.actions < MaxActions
       /\ r.armed => Len(timers) < MaxTimers
       /\ rogue => used.rogue < MaxRogue
       /\ gameState' = r.state
       /\ error' = r.error
       /\ timers' = IF r.armed THEN Append(timers, [stage |-> "win", snap |-> r.state])
                    ELSE timers
       /\ used' = [used EXCEPT !.actions = @ + 1,
                               !.rogue = IF rogue THEN @ + 1 ELSE @]
       /\ last' = [name |-> n, kind |-> kind, amount |-> amount, result |-> r.result,
                   state |-> gameState]
       /\ committed' = IF r.result \in {"notfound", "threw"} THEN committed
                       ELSE [committed EXCEPT
                                ![n] = @ + paidBy(gameState, n, kind, amount)]
       /\ UNCHANGED <<holeCards, decks, cards, scored, syncVars>>

LeaveTable(n) ==
    /\ used.rogue < MaxRogue
    /\ gameState' = leaveTable(gameState, n)
    /\ used' = [used EXCEPT !.rogue = @ + 1]
    /\ last' = NoOp
    /\ UNCHANGED <<error, timers, committed, holeCards, decks, cards, scored, syncVars>>

\* the oldest pending setTimeout callback runs
TimerFires ==
    /\ timers # <<>>
    /\ LET t == Head(timers)
       IN IF t.stage = "win"
          THEN IF Len(SelectSeq(t.snap.players, hasChips)) > 1
               THEN /\ gameState' = nextHandState(t.snap)
                    /\ timers' = Tail(timers)
               ELSE /\ gameState' = gameOverState(t.snap)
                    /\ timers' = Append(Tail(timers),
                                        [stage |-> "over", snap |-> gameOverState(t.snap)])
          ELSE /\ gameState' = resetState(t.snap)
               /\ timers' = Tail(timers)
    /\ last' = NoOp
    /\ committed' = NoneCommitted
    /\ holeCards' = NoCards
    /\ UNCHANGED <<error, used, decks, cards, scored, syncVars>>

AmountsOf(kind) == IF kind = "raise" THEN RaiseAmounts ELSE {0}

\* who may call performAction or leaveTable: the players of this table,
\* seated now or not
Callers == Names \cup {gameState.players[i].name : i \in DOMAIN gameState.players}

Next ==
    \/ \E n \in Joiners, found \in ArenaChips : JoinTable(n, ROOKIE_LOUNGE_BUYIN, found)
    \/ StartGame
    \/ \E n \in Callers, kind \in Actions : \E amount \in AmountsOf(kind) :
           PlayerAction(n, kind, amount)
    \/ \E n \in Callers : LeaveTable(n)
    \/ TimerFires

Spec == Init /\ [][Next]_vars

\* ------------------------------------------------------------ a table later on
\* The same table met later: the states below are built from the empty table
\* with the operations above, each call made by the player whose turn it is,
\* and the run goes on from there with the calls that are left.

\* chips a returning player's lookup yields (Arena or localStorage)
SavedChips == 1500

\* the performAction calls left to a run that starts later on
LateActions == 2

RECURSIVE joinAll(_, _)
\* the players names[1..] join the empty table, found[k] chips looked up
joinAll(names, found) ==
    IF names = <<>> THEN getDefaultState
    ELSE LET k == Len(names)
         IN joinTable(joinAll(SubSeq(names, 1, k - 1), found), names[k],
                      ROOKIE_LOUNGE_BUYIN, found[k]).state

\* startGame, with the bookkeeping of the StartGame step
dealt(gs) ==
    [gameState |-> startGame(gs).state,
     committed |-> committedAtDeal(startGame(gs).state),
     holeCards |-> holeCardsAtDeal(startGame(gs).state)]

\* performAction by the player whose turn it is, with the bookkeeping of the
\* PlayerAction step
acted(t, kind, amount) ==
    LET n == currentPlayerOf(t.gameState)
    IN [gameState |-> performAction(t.gameState, n, kind, amount).state,
        committed |-> [t.committed EXCEPT
                          ![n] = @ + paidBy(t.gameState, n, kind, amount)],
        holeCards |-> t.holeCards]

RECURSIVE played(_, _)
played(t, kinds) ==
    IF kinds = <<>> THEN t
    ELSE acted(played(t, SubSeq(kinds, 1, Len(kinds) - 1)), kinds[Len(kinds)], 0)

\* four players are seated and no hand has been dealt
fullTable ==
    [gameState |-> joinAll(<<"A", "B", "C", "D">>, <<0, 0, 0, 0>>),
     committed |-> NoneCommitted, holeCards |-> NoCards]

\* C and D, 1000 chips each, have limped to the River of their first hand
limpedRiver ==
    played(dealt(joinAll(<<"C", "D">>, <<0, 0>>)), <<"call", "check", "check">>)

\* A (1000 chips) and B (1500 chips) are both all in on the River of their
\* first hand: B went all in and A called with all A had
allInRiver ==
    played(dealt(joinAll(<<"A", "B">>, <<0, SavedChips>>)),
           <<"allin", "call", "check", "check">>)

\* the four players of the full table have limped to the River of their
\* first hand
fourRiver ==
    played(dealt(fullTable.gameState), <<"call", "call", "call", "check", "check">>)

LateTables == {fullTable, limpedRiver, allInRiver, fourRiver}

InitLate ==
    /\ \E t \in LateTables : /\ gameState = t.gameState
                              /\ committed = t.committed
                              /\ holeCards = t.holeCards
    /\ error = NoError
    /\ timers = <<>>
    /\ last = NoOp
    /\ used = [joins |-> MaxJoins, actions |-> MaxActions - LateActions, rogue |-> 0]
    /\ decks = <<>>
    /\ cards = <<>>
    /\ scored = NotScored
    /\ syncIdle

SpecLate == InitLate /\ [][Next]_vars


\* ------------------------------------------------------------ shuffleDeck alone
\* shuffleDeck is called on its own, more than once, with one seed: the seed
\* is held in gameState.handSeed and every deck returned is kept in decks.

\* hands whose seeds are tried, and calls made with one seed
MaxSeedHands == 4
MaxShuffles == 2

\* seeds at the ends of hashString's range and of the generator's exact
\* arithmetic, as limbs: 0, 1, 8162278, 230538014, 2^31 - 1, 2^31
EdgeSeeds ==
    {<<0, 0>>, <<0, 1>>, Limbs(8162278), Limbs(230538014), Limbs(MAX_INT31),
     <<W15, 0>>}

ShuffleSeeds ==
    EdgeSeeds \cup {generateHandSeed(tableId, h, S) : h \in 1..MaxSeedHands, S \in Tables}

InitShuffle ==
    /\ \E seed \in ShuffleSeeds : gameState = [getDefaultState EXCEPT !.handSeed = seed]
    /\ error = NoError
    /\ timers = <<>>
    /\ last = NoOp
    /\ used = [joins |-> 0, actions |-> 0, rogue |-> 0]
    /\ committed = NoneCommitted
    /\ holeCards = NoCards
    /\ decks = <<>>
    /\ cards = <<>>
    /\ scored = NotScored
    /\ syncIdle

\* one call shuffleDeck(seed): a new deck and a new generator each time
ShuffleDeck ==
    /\ Len(decks) < MaxShuffles
    /\ decks' = Append(decks, shuffleDeck(gameState.handSeed))
    /\ UNCHANGED <<gameState, error, timers, last, used, committed, holeCards,
                 cards, scored, syncVars>>

\* players dealt to in one call of dealCards
MaxDealPlayers == 6

\* one call dealCards(deck, playerCount) on the deck shuffled last
DealCards(playerCount) ==
    /\ decks # <<>>
    /\ scored' = [fn |-> "dealCards", deck |-> decks[Len(decks)],
                  playerCount |-> playerCount,
                  value |-> dealCards(decks[Len(decks)], playerCount)]
    /\ UNCHANGED <<gameState, error, timers, last, used, committed, holeCards,
                 decks, cards, syncVars>>

NextShuffle ==
    \/ ShuffleDeck
    \/ \E playerCount \in 1..MaxDealPlayers : DealCards(playerCount)

SpecShuffle == InitShuffle /\ [][NextShuffle]_vars


\* ------------------------------------------------------------ the evaluator alone
\* evaluate5Cards, evaluateBestHand and compareHands are called on their own.
\* cards are the cards handed to the evaluator, in ascending order of their
\* number in createDeck (the evaluator sorts what it is given); scored is the
\* call made and what it returned.

\* the decks hands are drawn from: the lowest MaxLowRanks ranks (2, 3, ...)
\* and the highest MaxHighRanks (ace, king, ...) of every suit for five cards;
\* the same low ranks and the highest BestHighRanks of the first BestSuits
\* suits for seven cards
MaxLowRanks == 4
MaxHighRanks == 5
BestHighRanks == 1
BestSuits == 3

ranksOf(low, high, suits) ==
    {c \in 0..(DECK_SIZE - 1) :
        /\ (c % 13) < low \/ (c % 13) >= 13 - high
        /\ c \div 13 < suits}

HandDeck == ranksOf(MaxLowRanks, MaxHighRanks, 4)
BestDeck == ranksOf(MaxLowRanks, BestHighRanks, BestSuits)

\* the card of a value (2..14) and a suit (0..3)
cardOf(value, suit) == suit * 13 + value - 2

\* hands whose values compareHands is given: the four of the evaluator's
\* correctness table and one more for each remaining category
SampleHands ==
    {<<cardOf(14, 0), cardOf(13, 0), cardOf(12, 0), cardOf(11, 0), cardOf(10, 0)>>,
     <<cardOf(14, 0), cardOf(14, 1), cardOf(14, 2), cardOf(13, 0), cardOf(13, 1)>>,
     <<cardOf(14, 0), cardOf(2, 1), cardOf(3, 2), cardOf(4, 0), cardOf(5, 1)>>,
     <<cardOf(7, 3), cardOf(7, 2), cardOf(2, 0), cardOf(9, 1), cardOf(13, 2)>>,
     <<cardOf(7, 3), cardOf(7, 2), cardOf(2, 0), cardOf(9, 1), cardOf(14, 2)>>,
     <<cardOf(9, 0), cardOf(9, 1), cardOf(4, 2), cardOf(4, 3), cardOf(13, 1)>>,
     <<cardOf(9, 0), cardOf(9, 1), cardOf(4, 2), cardOf(4, 3), cardOf(14, 1)>>,
     <<cardOf(8, 0), cardOf(8, 1), cardOf(8, 2), cardOf(8, 3), cardOf(3, 1)>>,
     <<cardOf(6, 0), cardOf(6, 1), cardOf(6, 2), cardOf(12, 3), cardOf(3, 1)>>,
     <<cardOf(13, 2), cardOf(9, 2), cardOf(8, 2), cardOf(4, 2), cardOf(2, 2)>>,
     <<cardOf(13, 2), cardOf(9, 1), cardOf(8, 2), cardOf(4, 2), cardOf(2, 2)>>,
     <<cardOf(9, 1), cardOf(8, 1), cardOf(7, 1), cardOf(6, 1), cardOf(5, 1)>>}

\* a hand value with only its first k kickers
firstKickers(hand, k) == [hand EXCEPT !.highCards = SubSeq(@, 1, Min(k, Len(@)))]

\* the values compareHands is given: those of the sample hands, whole and
\* cut short
HandValues ==
    {firstKickers(evaluate5Cards(h), k) : h \in SampleHands, k \in 1..5}

InitHands ==
    /\ gameState = getDefaultState
    /\ error = NoError
    /\ timers = <<>>
    /\ last = NoOp
    /\ used = [joins |-> 0, actions |-> 0, rogue |-> 0]
    /\ committed = NoneCommitted
    /\ holeCards = NoCards
    /\ decks = <<>>
    /\ cards = <<>>
    /\ scored = NotScored
    /\ syncIdle

handsUnchanged ==
    UNCHANGED <<gameState, error, timers, last, used, committed, holeCards, decks,
                syncVars>>

\* one more card of the hand is picked
DrawCard(c) ==
    /\ scored = NotScored
    /\ Len(cards) < 4
    /\ cards # <<>> => c > cards[Len(cards)]
    /\ cards' = Append(cards, c)
    /\ UNCHANGED scored
    /\ handsUnchanged

\* evaluate5Cards is called on a hand: the four cards picked and a fifth,
\* or one of the sample hands
Evaluate5Cards(hand) ==
    /\ scored = NotScored
    /\ \/ cards = <<>> /\ hand \in SampleHands
       \/ Len(cards) = 4 /\ SubSeq(hand, 1, 4) = cards /\ hand[5] > cards[4]
    /\ cards' = hand
    /\ scored' = [fn |-> "evaluate5Cards", value |-> evaluate5Cards(hand)]
    /\ handsUnchanged

\* the five cards are a board: two hole cards are picked and
\* evaluateBestHand is called
EvaluateBestHand(c1, c2) ==
    /\ scored.fn = "evaluate5Cards"
    /\ \A i \in 1..5 : cards[i] \in BestDeck
    /\ cards[5] < c1 /\ c1 < c2
    /\ cards' = <<c1, c2>> \o cards
    /\ scored' = [fn |-> "evaluateBestHand",
                  value |-> evaluateBestHand(<<c1, c2>>, cards)]
    /\ handsUnchanged

\* compareHands is called on two hand values, and on the same two swapped
CompareHands(hand1, hand2) ==
    /\ scored = NotScored
    /\ cards = <<>>
    /\ scored' = [fn |-> "compareHands", value |-> compareHands(hand1, hand2),
                  swapped |-> compareHands(hand2, hand1),
                  hand1 |-> hand1, hand2 |-> hand2]
    /\ UNCHANGED cards
    /\ handsUnchanged

NextHands ==
    \/ \E c \in HandDeck : DrawCard(c)
    \/ \E c \in HandDeck : Evaluate5Cards(Append(cards, c))
    \/ \E hand \in SampleHands : Evaluate5Cards(hand)
    \/ \E c1 \in BestDeck, c2 \in BestDeck : EvaluateBestHand(c1, c2)
    \/ \E hand1 \in HandValues, hand2 \in HandValues : CompareHands(hand1, hand2)

SpecHands == InitHands /\ [][NextHands]_vars


\* ------------------------------------------------------------ browsers and the server
\* Every player has a browser with its own usePokerGame hook; the hooks reach
\* each other through the WebSocket server. For the browser c of player c:
\* views[c] is the hook's gameState (state), with the operations it derives
\* from (by) and what the browser held right after its last STATE_UPDATE
\* (got); awaiting[c] are the performAction calls waiting for
\* application.query; timeLeft[c] is the countdown on the screen;
\* globalLeaderboard[c] the chips in the module's leaderboard map; tabs[c] is
\* "playing" (seated, the table on the screen), "lobby" or "closed".
\* uplink[c] and downlink[c] are the messages on the way to and from the
\* server, stored is the server's gameStates entry for the room (<<>>: none).
\* ops lists the operations evaluated so far: who made them, from which
\* source, on the snapshot derived from which operations (base), whether
\* their state has been broadcast (done) and whether the hook held another
\* state by then (stale). timers holds the pending setTimeout
\* callbacks of every browser and used.joins counts the GET_STATE requests.

\* operations evaluated, and GET_STATE requests made
MaxOps == 2
MaxGets == 1

\* the buttons the players press
SyncActions == {"call", "fold"}

activePhases == {"PreFlop", "Flop", "Turn", "River", "Showdown"}

\* the validation left out: the state is adopted as it is received
onStateUpdateAsIs(receivedState) == receivedState

\* ws.onmessage, STATE_UPDATE: the state the hook adopts
onStateUpdate(receivedState) ==
    IF receivedState.phase \in activePhases /\ Len(receivedState.players) < 2
    THEN [receivedState EXCEPT
             !.phase = "Waiting", !.pot = 0, !.currentBet = 0,
             !.communityCards = <<>>, !.dealtCards = NoDeal, !.winner = NoWinner,
             !.players = [i \in DOMAIN receivedState.players |->
                 [receivedState.players[i] EXCEPT
                     !.currentBet = 0, !.status = "Active"]]]
    ELSE receivedState

\* every player's entry is set to the player's chips
updateLocalLeaderboard(entries, players) ==
    [n \in DOMAIN entries |->
        IF findIndex(players, n) >= 0 THEN playerNamed(players, n).chips
        ELSE entries[n]]

\* every entry received replaces the entry held
syncLeaderboardFromState(entries, received) ==
    [n \in DOMAIN entries |->
        IF received[n] # Undefined THEN received[n] ELSE entries[n]]

\* the timer effect that lets the countdown go on
resetTimerKeeping(seconds) == seconds

\* the timer effect runs again when the hook's state changes: Reset timer to
\* 20 seconds
resetTimer(seconds) == TURN_SECONDS

\* the timer effect runs the countdown in browser c
running(c) == tabs[c] = "playing" /\ views[c].state.phase # "Waiting"

\* broadcastState(newState) in browser c, the state deriving from by
broadcastState(c, newState, by) ==
    LET entries == updateLocalLeaderboard(globalLeaderboard[c], newState.players)
    IN /\ globalLeaderboard' = [globalLeaderboard EXCEPT ![c] = entries]
       /\ uplink' = [uplink EXCEPT ![c] =
              Append(@, [type |-> "UPDATE_STATE", state |-> newState,
                         leaderboard |-> entries, by |-> by])]
       /\ views' = [views EXCEPT ![c] =
              [state |-> newState, by |-> by, got |-> NotReceived]]
       /\ timeLeft' = [timeLeft EXCEPT ![c] = resetTimer(@)]

\* performAction up to its await: the new state is computed from the hook's
\* state and the call waits for application.query
beginAction(c, source, kind, amount) ==
    LET r == performAction(views[c].state, c, kind, amount)
    IN /\ Len(ops) < MaxOps
       /\ r.result # "notfound"
       /\ awaiting' = [awaiting EXCEPT ![c] =
              Append(@, [op |-> Len(ops) + 1, result |-> r.result,
                         state |-> r.state, armed |-> r.armed])]
       /\ ops' = Append(ops, [source |-> source, name |-> c, kind |-> kind,
                              base |-> views[c].by,
                              hand |-> views[c].state.handNumber,
                              done |-> FALSE, stale |-> FALSE])

\* the table as the browsers find it: A and B seated, the first hand dealt,
\* every browser and the server holding that state
InitSync ==
    LET table == dealt(joinAll(<<"A", "B">>, <<0, 0>>)).gameState
        entries == updateLocalLeaderboard(NoEntries, table.players)
    IN /\ gameState = getDefaultState
       /\ error = NoError
       /\ timers = <<>>
       /\ last = NoOp
       /\ used = [joins |-> 0, actions |-> 0, rogue |-> 0]
       /\ committed = NoneCommitted
       /\ holeCards = NoCards
       /\ decks = <<>>
       /\ cards = <<>>
       /\ scored = NotScored
       /\ views = [c \in Clients |->
                     [state |-> table, by |-> {}, got |-> NotReceived]]
       /\ stored = <<[state |-> table, leaderboard |-> entries, by |-> {}]>>
       /\ uplink = [c \in Clients |-> <<>>]
       /\ downlink = [c \in Clients |-> <<>>]
       /\ awaiting = [c \in Clients |-> <<>>]
       /\ timeLeft = [c \in Clients |-> TURN_SECONDS]
       /\ globalLeaderboard = [c \in Clients |-> entries]
       /\ tabs = [c \in Clients |-> "playing"]
       /\ ops = <<>>

tableUnchanged ==
    UNCHANGED <<gameState, error, committed, holeCards, decks, cards, scored>>

\* the player presses an action button: handleAction, performAction
PerformAction(c, kind, amount) ==
    /\ tabs[c] = "playing"
    /\ actionBarShown(views[c].state) /\ isMyTurn(views[c].state, c)
    /\ beginAction(c, "real", kind, amount)
    /\ last' = NoOp
    /\ UNCHANGED <<views, stored, uplink, downlink, timeLeft, globalLeaderboard,
                   tabs, timers, used>>
    /\ tableUnchanged

\* no message is on its way
quiet == \A c \in Clients : uplink[c] = <<>> /\ downlink[c] = <<>>

\* a second passes, which is longer than a message takes: every running
\* countdown above 1 goes down by one
Tick ==
    /\ quiet
    /\ \E c \in Clients : running(c)
    /\ \A c \in Clients : running(c) => timeLeft[c] > 1
    /\ timeLeft' = [c \in Clients |->
                       IF running(c) THEN timeLeft[c] - 1 ELSE timeLeft[c]]
    /\ last' = NoOp
    /\ UNCHANGED <<views, stored, uplink, downlink, awaiting, globalLeaderboard,
                   tabs, ops, timers, used>>
    /\ tableUnchanged

\* Time's up in browser c - auto fold only if it's my turn
TimerExpires(c) ==
    /\ running(c)
    /\ timeLeft[c] <= 1
    /\ timeLeft' = [timeLeft EXCEPT ![c] = TURN_SECONDS]
    /\ IF isMyTurn(views[c].state, c)
       THEN beginAction(c, "timer", "fold", 0)
       ELSE UNCHANGED <<awaiting, ops>>
    /\ last' = NoOp
    /\ UNCHANGED <<views, stored, uplink, downlink, globalLeaderboard, tabs,
                   timers, used>>
    /\ tableUnchanged

\* application.query answers or fails in browser c: performAction goes on
\* from its await, broadcasts the state it computed and arms the timeout of
\* a finished hand
Persisted(c) ==
    /\ tabs[c] # "closed"
    /\ awaiting[c] # <<>>
    /\ LET p == Head(awaiting[c])
           by == ops[p.op].base \cup {p.op}
       IN /\ awaiting' = [awaiting EXCEPT ![c] = Tail(@)]
          /\ ops' = [ops EXCEPT ![p.op].done = TRUE,
                              ![p.op].stale = views[c].by # ops[p.op].base]
          /\ IF p.result = "threw"
             THEN UNCHANGED <<views, uplink, timeLeft, globalLeaderboard, timers>>
             ELSE /\ broadcastState(c, p.state, by)
                  /\ timers' = IF p.armed
                               THEN Append(timers, [stage |-> "win", snap |-> p.state,
                                                    client |-> c, by |-> by])
                               ELSE timers
    /\ last' = NoOp
    /\ UNCHANGED <<stored, downlink, tabs, used>>
    /\ tableUnchanged

\* the oldest pending setTimeout callback runs, on the state it captured
TimeoutFires ==
    /\ timers # <<>>
    /\ Len(ops) < MaxOps
    /\ LET t == Head(timers)
           by == t.by \cup {Len(ops) + 1}
           over == gameOverState(t.snap)
       IN /\ IF t.stage = "win"
             THEN IF Len(SelectSeq(t.snap.players, hasChips)) > 1
                  THEN /\ broadcastState(t.client, nextHandState(t.snap), by)
                       /\ timers' = Tail(timers)
                  ELSE /\ broadcastState(t.client, over, by)
                       /\ timers' = Append(Tail(timers),
                              [stage |-> "over", snap |-> over,
                               client |-> t.client, by |-> by])
             ELSE /\ broadcastState(t.client, resetState(t.snap), by)
                  /\ timers' = Tail(timers)
          /\ ops' = Append(ops, [source |-> "timeout", name |-> t.client,
                                 kind |-> t.stage, base |-> t.by,
                                 hand |-> t.snap.handNumber, done |-> TRUE,
                                 stale |-> views[t.client].by # t.by])
    /\ last' = NoOp
    /\ UNCHANGED <<stored, downlink, awaiting, tabs, used>>
    /\ tableUnchanged

\* the player leaves the room: leaveRoom, leaveTable
LeaveRoom(c) ==
    /\ tabs[c] = "playing"
    /\ Len(ops) < MaxOps
    /\ broadcastState(c, leaveTable(views[c].state, c),
                      views[c].by \cup {Len(ops) + 1})
    /\ ops' = Append(ops, [source |-> "leave", name |-> c, kind |-> "",
                           base |-> views[c].by,
                           hand |-> views[c].state.handNumber, done |-> TRUE,
                           stale |-> FALSE])
    /\ tabs' = [tabs EXCEPT ![c] = "lobby"]
    /\ last' = NoOp
    /\ UNCHANGED <<stored, downlink, awaiting, timers, used>>
    /\ tableUnchanged

\* joinTable by a seated player: Request latest state from server first
GetState(c) ==
    /\ tabs[c] = "playing"
    /\ used.joins < MaxGets
    /\ used' = [used EXCEPT !.joins = @ + 1]
    /\ uplink' = [uplink EXCEPT ![c] = Append(@, [type |-> "GET_STATE"])]
    /\ last' = NoOp
    /\ UNCHANGED <<views, stored, downlink, awaiting, timeLeft, globalLeaderboard,
                   tabs, ops, timers>>
    /\ tableUnchanged

\* the browser's tab is closed: its socket, timers and pending calls are gone
CloseTab(c) ==
    /\ tabs[c] # "closed"
    /\ tabs' = [tabs EXCEPT ![c] = "closed"]
    /\ downlink' = [downlink EXCEPT ![c] = <<>>]
    /\ awaiting' = [awaiting EXCEPT ![c] = <<>>]
    /\ timers' = SelectSeq(timers, LAMBDA t : t.client # c)
    /\ last' = NoOp
    /\ UNCHANGED <<views, stored, uplink, timeLeft, globalLeaderboard, ops, used>>
    /\ tableUnchanged

\* the server takes the next message of browser c: UPDATE_STATE is stored
\* and sent to every open socket of the room, GET_STATE is answered
ServerReceives(c) ==
    /\ uplink[c] # <<>>
    /\ uplink' = [uplink EXCEPT ![c] = Tail(@)]
    /\ LET m == Head(uplink[c])
       IN IF m.type = "UPDATE_STATE"
          THEN LET snap == [state |-> m.state, leaderboard |-> m.leaderboard,
                            by |-> m.by]
               IN /\ stored' = <<snap>>
                  /\ downlink' = [d \in Clients |->
                         IF tabs[d] # "closed" THEN Append(downlink[d], snap)
                         ELSE downlink[d]]
          ELSE /\ UNCHANGED stored
               /\ downlink' = IF stored # <<>> /\ tabs[c] # "closed"
                              THEN [downlink EXCEPT ![c] = Append(@, stored[1])]
                              ELSE downlink
    /\ last' = NoOp
    /\ UNCHANGED <<views, awaiting, timeLeft, globalLeaderboard, tabs, ops,
                   timers, used>>
    /\ tableUnchanged

\* ws.onmessage in browser c: a STATE_UPDATE is validated and adopted. last
\* keeps the message, and the state, countdown and leaderboard the browser
\* held before it.
ClientReceives(c) ==
    /\ tabs[c] # "closed"
    /\ downlink[c] # <<>>
    /\ downlink' = [downlink EXCEPT ![c] = Tail(@)]
    /\ LET m == Head(downlink[c])
           receivedState == onStateUpdate(m.state)
           entries == updateLocalLeaderboard(
                          syncLeaderboardFromState(globalLeaderboard[c],
                                                   m.leaderboard),
                          receivedState.players)
       IN /\ views' = [views EXCEPT ![c] =
                 [state |-> receivedState, by |-> m.by,
                  got |-> [any |-> TRUE, message |-> m, state |-> receivedState,
                           timeLeft |-> resetTimer(timeLeft[c]),
                           leaderboard |-> entries]]]
          /\ globalLeaderboard' = [globalLeaderboard EXCEPT ![c] = entries]
          /\ timeLeft' = [timeLeft EXCEPT ![c] = resetTimer(@)]
          /\ last' = [name |-> c, kind |-> "STATE_UPDATE", amount |-> 0,
                      result |-> "", state |-> m.state, message |-> m,
                      before |-> [state |-> views[c].state,
                                  timeLeft |-> timeLeft[c],
                                  leaderboard |-> globalLeaderboard[c],
                                  got |-> views[c].got]]
    /\ UNCHANGED <<stored, uplink, awaiting, tabs, ops, timers, used>>
    /\ tableUnchanged

NextSync ==
    \/ \E c \in Clients, kind \in SyncActions : PerformAction(c, kind, 0)
    \/ Tick
    \/ \E c \in Clients : TimerExpires(c)
    \/ \E c \in Clients : Persisted(c)
    \/ TimeoutFires
    \/ \E c \in Clients : LeaveRoom(c)
    \/ \E c \in Clients : GetState(c)
    \/ \E c \in Clients : CloseTab(c)
    \/ \E c \in Clients : ServerReceives(c)
    \/ \E c \in Clients : ClientReceives(c)

SpecSync == InitSync /\ [][NextSync]_vars


\* ------------------------------------------------------------ silent players
\* The same browsers with nobody pressing a button: seconds pass, countdowns
\* expire, pending calls are answered, messages are delivered, and a tab may
\* be closed. Whatever can go on does go on; nothing makes a closed tab come
\* back.
NextSilent ==
    \/ Tick
    \/ \E c \in Clients : TimerExpires(c)
    \/ \E c \in Clients : Persisted(c)
    \/ TimeoutFires
    \/ \E c \in Clients : CloseTab(c)
    \/ \E c \in Clients : ServerReceives(c)
    \/ \E c \in Clients : ClientReceives(c)

SpecSilent ==
    /\ InitSync
    /\ [][NextSilent]_vars
    /\ WF_vars(Tick)
    /\ WF_vars(TimeoutFires)
    /\ \A c \in Clients :
           /\ WF_vars(TimerExpires(c))
           /\ WF_vars(Persisted(c))
           /\ WF_vars(ServerReceives(c))
           /\ WF_vars(ClientReceives(c))


\* ------------------------------------------------------------ the claims
\* In every formula last.state is the state performAction was called on,
\* gameState the state it produced, last.name the caller, last.kind and
\* last.amount the action requested and last.result what the call did.

\* C1 as stated: every PlayerAction leaves sum(chips) + pot + sum(currentBet)
\* as it was.
C1_ChipsPotAndBetsConstant ==
    last.kind # "" =>
        SumChips(gameState.players) + gameState.pot + SumBets(gameState.players)
        = SumChips(last.state.players) + last.state.pot + SumBets(last.state.players)

\* C1 amended: every PlayerAction (one that closes the round or ends the hand
\* included) leaves sum(chips) + pot as it was; a bet is counted in pot as
\* soon as it is made and currentBet only records it.
C1_ChipsAndPotConstant ==
    last.kind # "" =>
        SumChips(gameState.players) + gameState.pot
        = SumChips(last.state.players) + last.state.pot

\* C1 witness: an action has moved chips from a stack into the pot.
C1_ChipsMovedToPot ==
    /\ last.kind \in {"call", "raise", "allin"}
    /\ phaseIndex(last.state.phase) \in 0..3
    /\ gameState.pot > last.state.pot
    /\ SumChips(gameState.players) < SumChips(last.state.players)

\* C2: during a betting phase an action of a player who is not the current
\* actor (neither the player the screen takes as current nor the player at
\* seat currentPlayerIndex) sets an error and leaves pot, currentBet, phase,
\* currentPlayerIndex and the players as they were.
C2_OutOfTurnRejected ==
    LET pre == last.state
        seated == IF pre.currentPlayerIndex + 1 \in DOMAIN pre.players
                  THEN pre.players[pre.currentPlayerIndex + 1].name ELSE ""
    IN /\ last.kind # ""
       /\ phaseIndex(pre.phase) \in 0..3
       /\ last.name # currentPlayerOf(pre)
       /\ last.name # seated
       => /\ error # NoError
          /\ gameState.pot = pre.pot
          /\ gameState.currentBet = pre.currentBet
          /\ gameState.phase = pre.phase
          /\ gameState.currentPlayerIndex = pre.currentPlayerIndex
          /\ gameState.players = pre.players

\* C3: during a betting phase a Check of the current actor whose currentBet
\* is lower than the table's currentBet leaves the state as it was: the turn
\* does not pass and the round does not close.
C3_CheckBelowBetRejected ==
    LET pre == last.state
    IN /\ last.kind = "check"
       /\ last.result # "notfound"
       /\ phaseIndex(pre.phase) \in 0..3
       /\ last.name = currentPlayerOf(pre)
       /\ playerNamed(pre.players, last.name).currentBet < pre.currentBet
       => gameState = pre

\* C4 as stated: an action closes the round (the phase advances or the
\* showdown is run) only if it was applied as a Check, Call or Fold and,
\* once it is applied, every Active or AllIn player's currentBet equals the
\* table's currentBet; a Raise or AllIn that changes the table's currentBet
\* never closes it.
C4_ClosesOnlyWhenAllBetsEqual ==
    LET pre == last.state
        actionStr == effectiveAction(playerNamed(pre.players, last.name), last.kind)
        after(q) == IF q.name = last.name
                    THEN updatedPlayer(q, actionStr, last.amount, pre.currentBet) ELSE q
        closes == last.result \in {"advance", "showdown"}
    IN last.kind # "" /\ last.result # "notfound" =>
        /\ closes =>
            /\ actionStr \in {"check", "call", "fold"}
            /\ \A i \in DOMAIN pre.players :
                   after(pre.players[i]).status \in {"Active", "AllIn"}
                   => after(pre.players[i]).currentBet = pre.currentBet
        /\ actionStr \in {"raise", "allin"}
           /\ newTableBetOf(playerNamed(pre.players, last.name), actionStr,
                            last.amount, pre.currentBet) # pre.currentBet
           => ~closes

\* C4 amended: an action closes the round only if it was applied as a Check,
\* Call or Fold and, once it is applied, every Active player's currentBet
\* equals the table's currentBet, an AllIn player being exempt (a player who
\* is all-in for less cannot match); a Raise or AllIn that changes the
\* table's currentBet never closes it.
C4_ClosesOnlyWhenActiveBetsEqual ==
    LET pre == last.state
        actionStr == effectiveAction(playerNamed(pre.players, last.name), last.kind)
        after(q) == IF q.name = last.name
                    THEN updatedPlayer(q, actionStr, last.amount, pre.currentBet) ELSE q
        closes == last.result \in {"advance", "showdown"}
    IN last.kind # "" /\ last.result # "notfound" =>
        /\ closes =>
            /\ actionStr \in {"check", "call", "fold"}
            /\ \A i \in DOMAIN pre.players :
                   after(pre.players[i]).status = "Active"
                   => after(pre.players[i]).currentBet = pre.currentBet
        /\ actionStr \in {"raise", "allin"}
           /\ newTableBetOf(playerNamed(pre.players, last.name), actionStr,
                            last.amount, pre.currentBet) # pre.currentBet
           => ~closes

\* C4 witness: a Call has closed the round while the caller, all-in for less,
\* stayed below the table's currentBet.
C4_ClosedWithShortAllIn ==
    LET pre == last.state
        p == playerNamed(pre.players, last.name)
    IN /\ last.kind = "call"
       /\ last.result = "advance"
       /\ phaseIndex(pre.phase) \in 0..3
       /\ last.name = currentPlayerOf(pre)
       /\ p.chips > 0
       /\ p.currentBet + p.chips < pre.currentBet
       /\ playerNamed(gameState.players, last.name).status = "AllIn"

\* C5: an action that closes the round with more than one player remaining
\* moves the phase one step along PreFlop, Flop, Turn, River, Showdown (from
\* River the showdown is run), leaves every player's currentBet and the
\* table's currentBet 0, and makes the community cards the first 3, 4 or 5
\* cards of the pre-dealt sequence.
C5_CloseAdvancesOneStep ==
    LET pre == last.state
        k == phaseIndex(pre.phase)
    IN last.result \in {"advance", "showdown"} =>
        /\ k \in 0..3
        /\ last.result = "advance" =>
            /\ k <= 2
            /\ gameState.phase = phases[k + 2]
            /\ Len(pre.dealtCards.communityCards) = 5
            /\ gameState.communityCards
               = SubSeq(pre.dealtCards.communityCards, 1, k + 3)
        /\ last.result = "showdown" => k = 3 /\ gameState.phase = "Winner"
        /\ gameState.currentBet = 0
        /\ \A i \in DOMAIN gameState.players : gameState.players[i].currentBet = 0

\* C6: an action that, once applied to the acting player, leaves exactly one
\* player not Folded ends the hand:
\* the phase is Winner with reason fold, pot is 0, no street is dealt, and
\* that player holds the stack they had after their own payment plus the
\* whole pot, the amount just paid included; nobody else's stack changes
\* but the actor's, by the amount paid.
C6_LastPlayerTakesPot ==
    LET pre == last.state
        actionStr == effectiveAction(playerNamed(pre.players, last.name), last.kind)
        after(q) == IF q.name = last.name
                    THEN updatedPlayer(q, actionStr, last.amount, pre.currentBet) ELSE q
        stillIn == {i \in DOMAIN pre.players : after(pre.players[i]).status # "Folded"}
        paid == gameState.winner.amount - pre.pot
    IN last.kind # "" /\ last.result # "notfound" /\ Cardinality(stillIn) = 1 =>
        /\ last.result = "foldwin"
        /\ gameState.phase = "Winner"
        /\ gameState.winner.reason = "fold"
        /\ gameState.pot = 0
        /\ gameState.communityCards = pre.communityCards
        /\ paid >= 0
        /\ actionStr \in {"fold", "check"} => paid = 0
        /\ Len(gameState.players) = Len(pre.players)
        /\ \A i \in DOMAIN pre.players :
               LET before == pre.players[i].chips
                            - (IF pre.players[i].name = last.name THEN paid ELSE 0)
               IN /\ i \in stillIn =>
                       /\ gameState.winner.name = pre.players[i].name
                       /\ gameState.players[i].chips = before + pre.pot + paid
                  /\ i \notin stillIn => gameState.players[i].chips = before

\* C6 witness: the heads-up hand of the example: stacks 1000 and 1000, blinds
\* 10 and 20, a raise that pays 110, then the fold; the stacks are 1020 and 980.
C6_HeadsUpFoldWin ==
    /\ last.kind = "fold"
    /\ last.result = "foldwin"
    /\ Len(gameState.players) = 2
    /\ last.state.pot = 140
    /\ last.state.currentBet = 120
    /\ playerNamed(last.state.players, last.name).chips = 980
    /\ playerNamed(gameState.players, last.name).chips = 980
    /\ playerNamed(gameState.players, gameState.winner.name).chips = 1020
    /\ gameState.winner.amount = 140

\* C7 as stated: an action changes, among the players, only the acting
\* player's chips, currentBet and status, and it takes from that player's
\* chips exactly what it adds to pot.
C7_OnlyActorChanges ==
    LET pre == last.state
    IN last.kind # "" /\ last.result # "notfound" =>
        /\ Len(gameState.players) = Len(pre.players)
        /\ \A i \in DOMAIN pre.players :
               IF pre.players[i].name = last.name
               THEN /\ gameState.players[i].name = last.name
                    /\ pre.players[i].chips - gameState.players[i].chips
                       = gameState.pot - pre.pot
               ELSE gameState.players[i] = pre.players[i]

\* C7 amended: an action that does not end the hand changes, among the
\* players, only the acting player's chips, currentBet and status, except
\* that an action that closes the round also resets every currentBet to 0;
\* it takes from the acting player's chips exactly what it adds to pot, and
\* that amount is never negative. (An action that ends the hand pays the pot
\* and resets bets and statuses: C6.)
C7_OnlyActorPays ==
    LET pre == last.state
    IN last.result \in {"next", "advance"} =>
        /\ Len(gameState.players) = Len(pre.players)
        /\ gameState.pot >= pre.pot
        /\ \A i \in DOMAIN pre.players :
               LET p == pre.players[i]
                   q == gameState.players[i]
               IN /\ q.name = p.name
                  /\ last.result = "advance" => q.currentBet = 0
                  /\ IF p.name = last.name
                     THEN p.chips - q.chips = gameState.pot - pre.pot
                     ELSE /\ q.chips = p.chips
                          /\ q.status = p.status
                          /\ last.result = "next" => q.currentBet = p.currentBet

\* C7 witness: a paying action has closed the round and cleared the bet of
\* a player who did not act.
C7_CloseClearedAnotherBet ==
    /\ last.result = "advance"
    /\ last.state.phase = "PreFlop"
    /\ gameState.phase = "Flop"
    /\ gameState.pot > last.state.pot
    /\ \E i \in DOMAIN last.state.players :
           /\ last.state.players[i].name # last.name
           /\ last.state.players[i].currentBet > 0
           /\ gameState.players[i].currentBet = 0

C9_RaisePaysCallPlusRaise ==
    LET pre == last.state
        p == playerNamed(pre.players, last.name)
        q == playerNamed(gameState.players, last.name)
        callPortion == Max(0, pre.currentBet - p.currentBet)
        pays == callPortion + Min(last.amount, p.chips - callPortion)
    IN last.kind = "raise" /\ last.result # "notfound" /\ p.chips > 0 =>
        /\ last.result \in {"next", "foldwin"}
        /\ last.result = "next" =>
            /\ p.chips - q.chips = pays
            /\ gameState.pot = pre.pot + pays
            /\ q.currentBet = p.currentBet + pays
            /\ gameState.currentBet = q.currentBet
            /\ (q.status = "AllIn") <=> (pays = p.chips)
        /\ last.result = "foldwin" =>
            /\ gameState.winner.amount = pre.pot + pays
            /\ gameState.currentBet = 0

\* C9 witness: a Raise for more than the stack holds has been cut down to
\* the stack and has put the raiser all-in.
C9_RaiseCutToStack ==
    LET pre == last.state
        p == playerNamed(pre.players, last.name)
        q == playerNamed(gameState.players, last.name)
    IN /\ last.kind = "raise"
       /\ last.result = "next"
       /\ phaseIndex(pre.phase) \in 0..3
       /\ last.name = currentPlayerOf(pre)
       /\ p.chips > 0
       /\ pre.currentBet > p.currentBet
       /\ last.amount > p.chips - (pre.currentBet - p.currentBet)
       /\ q.status = "AllIn"
       /\ gameState.currentBet = p.currentBet + p.chips

\* C10: during a betting phase an AllIn of a player with chips pays the
\* whole stack and makes the player AllIn; the table's currentBet becomes
\* the player's new currentBet if that is higher and stays otherwise; and an
\* AllIn that does not raise the table's currentBet is not treated as a
\* raise: with more than one player in the hand and every Active player's
\* currentBet equal to the table's, it closes the round as a Call would.
C10_AllInReopensOnlyWhenHigher ==
    LET pre == last.state
        p == playerNamed(pre.players, last.name)
        q == playerNamed(gameState.players, last.name)
        newBet == p.currentBet + p.chips
        others == {i \in DOMAIN pre.players : pre.players[i].name # last.name}
    IN /\ last.kind = "allin"
       /\ last.result # "notfound"
       /\ phaseIndex(pre.phase) \in 0..3
       /\ p.chips > 0
       => /\ last.result = "next" =>
               /\ q.chips = 0
               /\ q.status = "AllIn"
               /\ gameState.pot = pre.pot + p.chips
               /\ gameState.currentBet = Max(pre.currentBet, newBet)
          /\ /\ newBet <= pre.currentBet
             /\ \E i \in others : pre.players[i].status \in {"Active", "AllIn"}
             /\ \A i \in others : pre.players[i].status = "Active"
                                  => pre.players[i].currentBet = pre.currentBet
             => last.result \in {"advance", "showdown"}

C12_StartDuringHandRejected ==
    LET pre == last.state
    IN /\ last.result \in {"started", "notstarted"}
       /\ pre.phase \in {"PreFlop", "Flop", "Turn", "River", "Showdown"}
       => /\ error # NoError
          /\ gameState = pre

\* C13: a JoinTable on a full table and a StartGame with fewer than 2 players
\* each report an error and leave the table (players, phase, pot, handNumber
\* and the rest of the state) as it was; a join that seats a player found
\* room, a deal that starts found two players.
C13_FullTableAndLoneStartRefused ==
    LET pre == last.state
    IN /\ last.result = "refused" =>
            /\ Len(pre.players) >= MAX_PLAYERS
            /\ error = "Table is full"
            /\ gameState = pre
       /\ last.result = "notstarted" =>
            /\ Len(pre.players) < 2
            /\ error = "Need at least 2 players to start"
            /\ gameState = pre
       /\ last.result = "joined" => Len(pre.players) < MAX_PLAYERS
       /\ last.result = "started" => Len(pre.players) >= 2

\* C13 happens: a fifth player is turned away from a table of four
C13_FifthPlayerRefused ==
    /\ last.result = "refused"
    /\ last.name \notin {gameState.players[i].name : i \in DOMAIN gameState.players}
    /\ Len(gameState.players) = MAX_PLAYERS
    /\ error = "Table is full"

\* C14 as stated: in every reachable state every player's chips are a
\* non-negative integer.
C14_ChipsNeverNegative ==
    \A i \in DOMAIN gameState.players :
        gameState.players[i].chips \in Nat

\* C15 as stated: in every reachable state the board has exactly 0 cards in
\* Waiting and PreFlop, 3 in Flop, 4 in Turn, and 5 in River, Showdown and
\* Winner.
C15_BoardSizeByPhase ==
    LET k == Len(gameState.communityCards)
    IN /\ gameState.phase \in {"Waiting", "PreFlop"} => k = 0
       /\ gameState.phase = "Flop" => k = 3
       /\ gameState.phase = "Turn" => k = 4
       /\ gameState.phase \in {"River", "Showdown", "Winner"} => k = 5

\* C16 as stated: in every reachable state with phase PreFlop, Flop, Turn or
\* River exactly one player is the current actor that currentPlayerIndex
\* designates (read the way the screen reads it), and that player is Active
\* or AllIn.
C16_OneCurrentActorInHand ==
    LET actors == {i \in DOMAIN gameState.players :
                      gameState.players[i].name = currentPlayerOf(gameState)}
    IN gameState.phase \in {"PreFlop", "Flop", "Turn", "River"} =>
        /\ Cardinality(actors) = 1
        /\ \A i \in actors : gameState.players[i].status \in {"Active", "AllIn"}

\* C17 as stated: when the River round closes with more than one non-Folded
\* player, the pot goes to a non-Folded player whose best hand (the player's
\* two cards with the board) no non-Folded player beats, the pot becomes 0
\* and the phase Winner with reason showdown; and with a pot of 1000 and
\* stacks 500/500, Two Pair (Jacks and 5s) beats a Pair of Kings and the
\* stacks end 1500 and 500.
C17_ShowdownPaysBestHand ==
    LET pre == last.state
        actionStr == effectiveAction(playerNamed(pre.players, last.name), last.kind)
        after(q) == IF q.name = last.name
                    THEN updatedPlayer(q, actionStr, last.amount, pre.currentBet) ELSE q
        contenders == {pre.players[i].name : i \in
                          {k \in DOMAIN pre.players : notFolded(after(pre.players[k]))}}
        handOf(n) == evaluateBestHand(holeCards[n], pre.communityCards)
        w == gameState.winner.name
        paid == potIncreaseOf(playerNamed(pre.players, last.name), actionStr,
                              last.amount, pre.currentBet)
        kings == evaluateBestHand(<<11, 50>>, <<35, 16, 39, 7, 27>>)
        jacksAndFives == evaluateBestHand(<<22, 29>>, <<35, 16, 39, 7, 27>>)
        example == <<[name |-> "A", chips |-> 500, status |-> "Active", currentBet |-> 0],
                     [name |-> "B", chips |-> 500, status |-> "Active", currentBet |-> 0]>>
    IN /\ last.kind # "" /\ pre.phase = "River" =>
            last.result \in {"notfound", "next", "foldwin", "showdown"}
       /\ last.result = "showdown" =>
            /\ pre.phase = "River"
            /\ Cardinality(contenders) > 1
            /\ w \in contenders
            /\ \A n \in contenders : compareHands(handOf(n), handOf(w)) <= 0
            /\ gameState.pot = 0
            /\ gameState.phase = "Winner"
            /\ gameState.winner.reason = "showdown"
            /\ gameState.winner.amount = pre.pot + paid
            /\ playerNamed(gameState.players, w).chips
                 = after(playerNamed(pre.players, w)).chips + pre.pot + paid
       /\ last.result = "showdown" =>
            /\ kings.rank = ONE_PAIR /\ jacksAndFives.rank = TWO_PAIR
            /\ compareHands(jacksAndFives, kings) = 1
            /\ awardPot(example, "B", 1000)[1].chips = 500
            /\ awardPot(example, "B", 1000)[2].chips = 1500

\* C18 as stated: when several non-Folded players tie for the best hand at
\* the showdown, each of them is paid the pot divided by their number (or one
\* chip more, for the remainder), none of them is paid nothing, and what
\* they are paid adds up to the pot.
C18_TiedHandsSplitPot ==
    LET pre == last.state
        actionStr == effectiveAction(playerNamed(pre.players, last.name), last.kind)
        after(q) == IF q.name = last.name
                    THEN updatedPlayer(q, actionStr, last.amount, pre.currentBet) ELSE q
        contenders == {pre.players[i].name : i \in
                          {k \in DOMAIN pre.players : notFolded(after(pre.players[k]))}}
        handOf(n) == evaluateBestHand(holeCards[n], pre.communityCards)
        best == {n \in contenders :
                    \A m \in contenders : compareHands(handOf(m), handOf(n)) <= 0}
        totalPot == pre.pot + potIncreaseOf(playerNamed(pre.players, last.name),
                                            actionStr, last.amount, pre.currentBet)
        share == totalPot \div Cardinality(best)
        gain(i) == gameState.players[i].chips - after(pre.players[i]).chips
        gains == [i \in DOMAIN pre.players |->
                     IF pre.players[i].name \in best THEN gain(i) ELSE 0]
    IN last.result = "showdown" /\ Cardinality(best) > 1 =>
        /\ \A i \in DOMAIN pre.players :
              pre.players[i].name \in best =>
                  gain(i) \in {share, share + 1} /\ gain(i) > 0
        /\ SumOf(gains, Len(gains)) = totalPot

\* C19 as stated: at the showdown a player is paid, from each player who put
\* chips into the pot this hand, at most what the paid player put in: nobody
\* receives chips of a tier they did not contribute to.
C19_PaidAtMostOwnStakePerOpponent ==
    LET pre == last.state
        actionStr == effectiveAction(playerNamed(pre.players, last.name), last.kind)
        after(q) == IF q.name = last.name
                    THEN updatedPlayer(q, actionStr, last.amount, pre.currentBet) ELSE q
        gain(i) == gameState.players[i].chips - after(pre.players[i]).chips
        covered(n) == [k \in DOMAIN Arrivals |->
                          Min(committed[Arrivals[k]], committed[n])]
    IN last.result = "showdown" =>
        \A i \in DOMAIN pre.players :
            gain(i) <= SumOf(covered(pre.players[i].name), Len(Arrivals))

\* C20: for every seed tried, shuffleDeck(seed) returns the 52 cards, each
\* rank and suit once and no entry missing or undefined, and a second call
\* with the same seed returns the same order.
C20_ShuffleIsAPermutation ==
    \A k \in DOMAIN decks :
        /\ Len(decks[k]) = DECK_SIZE
        /\ {decks[k][i] : i \in DOMAIN decks[k]} = 0..(DECK_SIZE - 1)
        /\ {<<getCardValue(decks[k][i]), cardSuit(decks[k][i])>> : i \in DOMAIN decks[k]}
             = (2..14) \X (0..3)
        /\ decks[k] = decks[1]

\* C20 happens: two calls with the seed of a hand have returned decks that
\* are not in the order createDeck builds.
C20_ShuffledTwice ==
    /\ Len(decks) = 2
    /\ decks[1] # createDeck
    /\ gameState.handSeed = generateHandSeed(tableId, 1, {"A", "B"})


\* ---- C21, C22: the evaluator, under SpecHands

\* the value poker gives five cards: its category and the kickers of that
\* category, from the ranks (2..14) and suits of the cards alone
pokerValue(cs) ==
    LET rank(i) == (cs[i] % 13) + 2
        suit(i) == cs[i] \div 13
        ranks == {rank(i) : i \in 1..5}
        ofAKind(n) == {v \in ranks : Cardinality({i \in 1..5 : rank(i) = v}) = n}
        oneSuit == \A i \in 1..5 : suit(i) = suit(1)
        highs == {h \in 5..14 :
                    ranks = IF h = 5 THEN {14, 2, 3, 4, 5} ELSE (h - 4)..h}
        high == CHOOSE h \in highs : TRUE
    IN IF highs # {} /\ oneSuit
       THEN [rank |-> IF high = 14 THEN 10 ELSE 9, highCards |-> <<high>>]
       ELSE IF ofAKind(4) # {}
       THEN [rank |-> 8, highCards |-> SortDesc(ofAKind(4)) \o SortDesc(ofAKind(1))]
       ELSE IF ofAKind(3) # {} /\ ofAKind(2) # {}
       THEN [rank |-> 7, highCards |-> SortDesc(ofAKind(3)) \o SortDesc(ofAKind(2))]
       ELSE IF oneSuit THEN [rank |-> 6, highCards |-> SortDesc(ranks)]
       ELSE IF highs # {} THEN [rank |-> 5, highCards |-> <<high>>]
       ELSE IF ofAKind(3) # {}
       THEN [rank |-> 4, highCards |-> SortDesc(ofAKind(3)) \o SortDesc(ofAKind(1))]
       ELSE IF Cardinality(ofAKind(2)) = 2
       THEN [rank |-> 3, highCards |-> SortDesc(ofAKind(2)) \o SortDesc(ofAKind(1))]
       ELSE IF ofAKind(2) # {}
       THEN [rank |-> 2, highCards |-> SortDesc(ofAKind(2)) \o SortDesc(ofAKind(1))]
       ELSE [rank |-> 1, highCards |-> SortDesc(ranks)]

\* the four hands of the evaluator's correctness table
royalFlushHand ==
    <<cardOf(14, 0), cardOf(13, 0), cardOf(12, 0), cardOf(11, 0), cardOf(10, 0)>>
acesFullHand ==
    <<cardOf(14, 0), cardOf(14, 1), cardOf(14, 2), cardOf(13, 0), cardOf(13, 1)>>
wheelHand ==
    <<cardOf(14, 0), cardOf(2, 1), cardOf(3, 2), cardOf(4, 0), cardOf(5, 1)>>
sevensKingHand ==
    <<cardOf(7, 3), cardOf(7, 2), cardOf(2, 0), cardOf(9, 1), cardOf(13, 2)>>
sevensAceHand ==
    <<cardOf(7, 3), cardOf(7, 2), cardOf(2, 0), cardOf(9, 1), cardOf(14, 2)>>

\* the order of two hand values: the category first, then the first kicker
\* that differs, a missing kicker counting as 0
handOrder(a, b) ==
    LET ka(i) == IF i <= Len(a.highCards) THEN a.highCards[i] ELSE 0
        kb(i) == IF i <= Len(b.highCards) THEN b.highCards[i] ELSE 0
        differ == {i \in 1..5 : ka(i) # kb(i)}
        first == CHOOSE i \in differ : \A j \in differ : i <= j
    IN IF a.rank # b.rank THEN (IF a.rank > b.rank THEN 1 ELSE -1)
       ELSE IF differ = {} THEN 0
       ELSE IF ka(first) > kb(first) THEN 1 ELSE -1

\* C21: evaluate5Cards gives every five-card hand its poker category (1 High
\* Card .. 10 Royal Flush) with the kickers of that category; A-K-Q-J-10 of
\* one suit is a Royal Flush, A-A-A-K-K a Full House with kickers [14, 13],
\* A-2-3-4-5 of mixed suits a Straight with high card 5, and a pair of 7s
\* with an ace kicker beats the same pair with a king kicker.
C21_EvaluatorScoresEveryHand ==
    scored.fn = "evaluate5Cards" =>
        /\ scored.value = pokerValue(cards)
        /\ cards = royalFlushHand =>
               scored.value = [rank |-> 10, highCards |-> <<14>>]
        /\ cards = acesFullHand =>
               scored.value = [rank |-> 7, highCards |-> <<14, 13>>]
        /\ cards = wheelHand =>
               scored.value = [rank |-> 5, highCards |-> <<5>>]
        /\ cards = sevensAceHand =>
               /\ scored.value = [rank |-> 2, highCards |-> <<7, 14, 9, 2>>]
               /\ compareHands(scored.value, evaluate5Cards(sevensKingHand)) = 1
               /\ compareHands(evaluate5Cards(sevensKingHand), scored.value) = -1

\* C21 happens: the wheel of mixed suits has been evaluated as a 5-high
\* straight
C21_WheelScored ==
    /\ scored.fn = "evaluate5Cards"
    /\ cards = wheelHand
    /\ scored.value.rank = STRAIGHT
    /\ scored.value.highCards = <<5>>

\* the values of the five-card subsets of seven cards
subsetValues(cs) ==
    {evaluate5Cards([i \in 1..5 |-> cs[SortDesc(S)[i]]]) :
        S \in {T \in SUBSET (1..7) : Cardinality(T) = 5}}

\* C22: compareHands orders two hands by category and then by the first
\* kicker that differs, a missing kicker counting as 0, says tie only when
\* all are equal, and gives the opposite answer when the hands are swapped;
\* evaluateBestHand over 2 hole cards and 5 community cards returns the value
\* of one of the 21 five-card subsets, and none of the 21 beats it.
C22_CompareOrdersAndBestIsMaximal ==
    /\ scored.fn = "compareHands" =>
           /\ scored.value = handOrder(scored.hand1, scored.hand2)
           /\ scored.value = 0 - scored.swapped
           /\ scored.value = 0 <=>
                  /\ scored.hand1.rank = scored.hand2.rank
                  /\ \A i \in 1..5 : OrZero(scored.hand1.highCards, i)
                                     = OrZero(scored.hand2.highCards, i)
    /\ scored.fn = "evaluateBestHand" =>
           /\ scored.value \in subsetValues(cards)
           /\ \A v \in subsetValues(cards) : handOrder(v, scored.value) # 1

\* C22 happens: two hands of one category were compared, the first with more
\* kickers than the second and equal as far as the second goes, and the
\* first won
C22_LongerKickersWon ==
    /\ scored.fn = "compareHands"
    /\ scored.hand1.rank = scored.hand2.rank
    /\ Len(scored.hand1.highCards) > Len(scored.hand2.highCards)
    /\ SubSeq(scored.hand1.highCards, 1, Len(scored.hand2.highCards))
       = scored.hand2.highCards
    /\ scored.value = 1
    /\ scored.swapped = -1


\* ---- C24..C28: browsers and the server, under SpecSync

\* no operation is waiting, on its way or due
settled ==
    /\ quiet
    /\ timers = <<>>
    /\ \A c \in Clients : awaiting[c] = <<>>
    /\ \A k \in DOMAIN ops : ops[k].done

\* C24 as stated: of a player's real action and the timer's fold evaluated on
\* the same turn (the same snapshot), the fold made after the real action
\* was submitted never takes effect, and a timer's fold whose state is no
\* longer the hook's state when it is to be applied is not applied.
C24_OneOfActionAndTimerFold ==
    /\ \A i \in DOMAIN ops : \A j \in DOMAIN ops :
           (/\ i < j
            /\ ops[i].source = "real" /\ ops[j].source = "timer"
            /\ ops[i].name = ops[j].name /\ ops[i].hand = ops[j].hand
            /\ ops[i].base = ops[j].base)
           => ~ops[j].done
    /\ \A j \in DOMAIN ops :
           ops[j].source = "timer" /\ ops[j].done => ~ops[j].stale

\* C25 as stated: no two operations are evaluated against the same snapshot,
\* and once nothing is waiting or on its way the server's state derives from
\* every operation made.
C25_OperationsApplyOneAfterAnother ==
    /\ \A i \in DOMAIN ops : \A j \in DOMAIN ops :
           i # j => ops[i].base # ops[j].base
    /\ settled /\ stored # <<>> => stored[1].by = DOMAIN ops

\* C26 as stated: while the persistence call of a performAction has not
\* returned, the hook already holds the state the action produces.
C26_StateNotHeldBackByPersistence ==
    \A c \in Clients :
        awaiting[c] # <<>> /\ Head(awaiting[c]).result # "threw"
        => views[c].state = Head(awaiting[c]).state

\* C27 as stated: a snapshot received with an active phase and fewer than 2
\* players is adopted with phase Waiting, pot 0, currentBet 0, no community
\* cards and no winner, and with the players as they were received.
C27_InvalidSnapshotResetPlayersKept ==
    (/\ last.kind = "STATE_UPDATE"
     /\ last.state.phase \in {"PreFlop", "Flop", "Turn", "River", "Showdown"}
     /\ Len(last.state.players) < 2)
    => /\ views[last.name].state.phase = "Waiting"
       /\ views[last.name].state.pot = 0
       /\ views[last.name].state.currentBet = 0
       /\ views[last.name].state.communityCards = <<>>
       /\ views[last.name].state.winner = NoWinner
       /\ views[last.name].state.players = last.state.players

\* C27 amended: such a snapshot is adopted with phase Waiting, pot 0,
\* currentBet 0, no community cards and no winner; the players received are
\* kept by name and chips, in their order, each with currentBet 0 and status
\* Active.
C27_InvalidSnapshotResetToWaiting ==
    (/\ last.kind = "STATE_UPDATE"
     /\ last.state.phase \in {"PreFlop", "Flop", "Turn", "River", "Showdown"}
     /\ Len(last.state.players) < 2)
    => /\ views[last.name].state.phase = "Waiting"
       /\ views[last.name].state.pot = 0
       /\ views[last.name].state.currentBet = 0
       /\ views[last.name].state.communityCards = <<>>
       /\ views[last.name].state.winner = NoWinner
       /\ Len(views[last.name].state.players) = Len(last.state.players)
       /\ \A i \in DOMAIN last.state.players :
              /\ views[last.name].state.players[i].name = last.state.players[i].name
              /\ views[last.name].state.players[i].chips = last.state.players[i].chips
              /\ views[last.name].state.players[i].currentBet = 0
              /\ views[last.name].state.players[i].status = "Active"

\* C27 happens: a browser received a PreFlop snapshot with one player, who
\* had a blind on the table, and holds a Waiting table
C27_LonePlayerWithBlindReset ==
    /\ last.kind = "STATE_UPDATE"
    /\ last.state.phase = "PreFlop"
    /\ Len(last.state.players) = 1
    /\ last.state.players[1].currentBet > 0
    /\ last.state.pot > 0
    /\ views[last.name].state.phase = "Waiting"

silentTurnOf(a) ==
    /\ stored # <<>>
    /\ stored[1].state.phase \in {"PreFlop", "Flop", "Turn", "River"}
    /\ currentPlayerOf(stored[1].state) = a

\* a's turn has been ended by a fold of a: a is Folded at the server's table,
\* or the fold has ended the hand
foldedOut(a) ==
    /\ stored # <<>>
    /\ \/ stored[1].state.phase \notin {"PreFlop", "Flop", "Turn", "River"}
       \/ /\ findIndex(stored[1].state.players, a) >= 0
          /\ playerNamed(stored[1].state.players, a).status = "Folded"

\* C23 as stated: whenever it is a silent player's turn in a betting phase,
\* a Fold of that player is eventually applied, whichever tabs are open, as
\* long as one is.
C23_SilentActorIsFolded ==
    \A a \in Clients :
        silentTurnOf(a) ~> (foldedOut(a) \/ \A c \in Clients : tabs[c] = "closed")


\* ---- C29, C30: actions outside their place, under Spec

\* name, chips and status of every seated player
seats(gs) ==
    [i \in DOMAIN gs.players |->
        <<gs.players[i].name, gs.players[i].chips, gs.players[i].status>>]

\* C29 as stated: a performAction call never moves the phase to PreFlop from
\* another phase, and a call made while the phase is Waiting, Winner,
\* ReadyForNextHand or GameOver leaves phase, pot, chips and statuses as they
\* were.
C29_ActionsOnlyInBettingPhases ==
    last.kind \in Actions
    => /\ last.state.phase # "PreFlop" => gameState.phase # "PreFlop"
       /\ last.state.phase \notin {"PreFlop", "Flop", "Turn", "River"}
          => /\ gameState.phase = last.state.phase
             /\ gameState.pot = last.state.pot
             /\ seats(gameState) = seats(last.state)

\* C30 as stated: a performAction call made in a betting phase never turns a
\* player who was AllIn into a Folded one.
C30_AllInNeverFolded ==
    (/\ last.kind \in Actions
     /\ last.state.phase \in {"PreFlop", "Flop", "Turn", "River"})
    => \A i \in DOMAIN last.state.players :
           (/\ last.state.players[i].status = "AllIn"
            /\ i \in DOMAIN gameState.players)
           => gameState.players[i].status # "Folded"


\* ---- C31: what follows the Winner phase, under Spec

\* C31 as stated: the phase leaves Winner only for ReadyForNextHand when at
\* least 2 players have chips and for GameOver otherwise; it leaves
\* ReadyForNextHand only when startGame deals a hand; it leaves GameOver only
\* for Waiting with an empty player list.
C31_WinnerThenReadyOrOver ==
    [][/\ (gameState.phase = "Winner" /\ gameState'.phase # "Winner")
          => gameState'.phase =
                 IF Len(SelectSeq(gameState.players, hasChips)) >= 2
                 THEN "ReadyForNextHand" ELSE "GameOver"
       /\ (gameState.phase = "ReadyForNextHand"
           /\ gameState'.phase # "ReadyForNextHand")
          => last'.result = "started"
       /\ (gameState.phase = "GameOver" /\ gameState'.phase # "GameOver")
          => gameState'.phase = "Waiting" /\ gameState'.players = <<>>]_vars


\* ---- C32: the forced fold, under Spec

\* the last call was made by the player whose turn it was, who had no chips,
\* and asked for something else than fold or check
forcedFoldCase ==
    /\ last.kind \in Actions \ {"fold", "check"}
    /\ last.result \notin {"notfound", "threw"}
    /\ actionBarShown(last.state)
    /\ isMyTurn(last.state, last.name)
    /\ playerNamed(last.state.players, last.name).chips = 0

\* C32: when the current actor has 0 chips and asks for call, raise or allin,
\* the call has the effect of that player's fold: the actor is Folded and
\* still has 0 chips, nothing is added to the pot, and chips change hands
\* only if the fold ends the hand, when the winner is paid the pot as it was.
C32_NoChipsActionIsFold ==
    forcedFoldCase
    => /\ playerNamed(gameState.players, last.name).status = "Folded"
       /\ playerNamed(gameState.players, last.name).chips = 0
       /\ IF last.result \in {"foldwin", "showdown"}
          THEN /\ gameState.winner.amount = last.state.pot
               /\ SumChips(gameState.players)
                      = SumChips(last.state.players) + last.state.pot
          ELSE /\ gameState.pot = last.state.pot
               /\ gameState.currentBet \in {last.state.currentBet, 0}
               /\ \A i \in DOMAIN gameState.players :
                      gameState.players[i].chips = last.state.players[i].chips

\* C32 happens: an all-in player asked to call in a betting phase and is
\* Folded
C32_AllInCallerFolded ==
    /\ forcedFoldCase
    /\ last.kind = "call"
    /\ last.state.phase \in {"PreFlop", "Flop", "Turn", "River"}
    /\ playerNamed(last.state.players, last.name).status = "AllIn"
    /\ playerNamed(gameState.players, last.name).status = "Folded"


\* ---- C33: who opens a new street, under Spec

\* the seat (from 0) of the first Active or AllIn player met from the seat
\* after the dealer's, going round the table
firstSeatAfterDealer(gs) ==
    LET n == Len(gs.players)
        seatAt(i) == (gs.dealerPosition + i) % n
        first == CHOOSE i \in 1..n :
                     /\ isActive(gs.players[seatAt(i) + 1])
                     /\ \A k \in 1..(i - 1) : ~isActive(gs.players[seatAt(k) + 1])
    IN seatAt(first)

\* every call so far was made from the buttons the screens offer
playedByTheButtons == used.rogue = 0

\* C33 as stated: after an action of the current player that closes the round
\* into Flop, Turn or River, the player whose turn it is is the first Active
\* or AllIn player met from the seat after the dealer's.
C33_FirstActorAfterDealer ==
    (/\ playedByTheButtons
     /\ last.kind \in Actions
     /\ last.result = "advance"
     /\ isMyTurn(last.state, last.name)
     /\ gameState.phase \in {"Flop", "Turn", "River"})
    => currentPlayerOf(gameState)
           = gameState.players[firstSeatAfterDealer(gameState) + 1].name


\* ---- C34: the deal, under SpecShuffle

\* the cards of a deal, hole cards in seat order and then the board
dealtInOrder(d, i) ==
    IF i <= 2 * Len(d.playerCards)
    THEN d.playerCards[(i + 1) \div 2][2 - (i % 2)]
    ELSE d.communityCards[i - 2 * Len(d.playerCards)]

\* C34: dealCards gives player p (from 1) the cards at deck places 2p-1 and
\* 2p, skips one card, takes 3 for the flop, skips one, takes the turn,
\* skips one, takes the river; the hole cards and the 5 board cards are
\* pairwise distinct, and with the 3 skipped cards they are the first
\* 2 * players + 8 cards of the deck.
C34_DealTakesFrontOfDeck ==
    scored.fn = "dealCards"
    => LET deck == scored.deck
           n == scored.playerCount
           d == scored.value
           base == 2 * n
           all == {dealtInOrder(d, i) : i \in 1..(base + 5)}
       IN /\ Len(d.playerCards) = n
          /\ \A p \in 1..n : d.playerCards[p] = <<deck[2 * p - 1], deck[2 * p]>>
          /\ d.communityCards = <<deck[base + 2], deck[base + 3], deck[base + 4],
                                  deck[base + 6], deck[base + 8]>>
          /\ Cardinality(all) = base + 5
          /\ all \cup {deck[base + 1], deck[base + 5], deck[base + 7]}
                 = {deck[i] : i \in 1..(base + 8)}
          /\ base + 8 <= Len(deck)

\* C34 happens: a full table of MAX_PLAYERS players was dealt to from a
\* shuffled deck
C34_FullTableDealt ==
    /\ scored.fn = "dealCards"
    /\ scored.playerCount = MAX_PLAYERS
    /\ scored.deck # createDeck
    /\ Len(scored.value.communityCards) = 5


\* ---- C35: who acts next within a round, under Spec

\* the seat (from 0) of the nearest player after seat whose status is Active,
\* going round the table
nextActiveSeat(gs, seat) ==
    LET n == Len(gs.players)
        seatAt(i) == (seat + i) % n
        first == CHOOSE i \in 1..n :
                     /\ gs.players[seatAt(i) + 1].status = "Active"
                     /\ \A k \in 1..(i - 1) :
                            gs.players[seatAt(k) + 1].status # "Active"
    IN seatAt(first)

\* C35 as stated: after an action of the current player in a betting phase
\* that neither closes the round nor ends the hand, the player whose turn it
\* is is the nearest Active player after the actor's seat, also when the
\* action was a fold.
C35_TurnPassesClockwise ==
    (/\ playedByTheButtons
     /\ last.kind \in Actions
     /\ last.result = "next"
     /\ last.state.phase \in {"PreFlop", "Flop", "Turn", "River"}
     /\ isMyTurn(last.state, last.name)
     /\ \E i \in DOMAIN gameState.players : gameState.players[i].status = "Active")
    => currentPlayerOf(gameState)
           = gameState.players[
                 nextActiveSeat(gameState,
                                findIndex(gameState.players, last.name)) + 1].name


\* ---- C36: everybody acts before a round closes, under Spec

\* the step is a performAction call kind of the player whose turn it is
stepByCurrentPlayer(kind) ==
    /\ last'.kind = kind
    /\ last'.state = gameState
    /\ last'.name = currentPlayerOf(gameState)
    /\ last'.result \notin {"notfound", "threw"}

\* C36 as stated: on a street just opened (Flop, Turn or River, nobody has
\* acted, 2 or more Active players) the check of the first player leaves the
\* phase as it is; on a hand just dealt to 2 players the call of the small
\* blind leaves the phase PreFlop, the big blind having the next turn.
C36_RoundWaitsForEveryPlayer ==
    [][/\ (/\ playedByTheButtons
           /\ last.result = "advance"
           /\ gameState.phase \in {"Flop", "Turn", "River"}
           /\ Len(SelectSeq(gameState.players,
                            LAMBDA q : q.status = "Active")) >= 2
           /\ stepByCurrentPlayer("check"))
          => gameState'.phase = gameState.phase
       /\ (/\ playedByTheButtons
           /\ last.result = "started"
           /\ Len(gameState.players) = 2
           /\ stepByCurrentPlayer("call"))
          => gameState'.phase = "PreFlop"]_vars


\* ---- C37: the table bet within a round, under Spec

\* the highest currentBet among the players that have not folded
highestBet(gs) ==
    LET bets == {gs.players[i].currentBet :
                    i \in {k \in DOMAIN gs.players : notFolded(gs.players[k])}}
    IN IF bets = {} THEN 0 ELSE CHOOSE b \in bets : \A c \in bets : c <= b

\* C37 as stated: after an action of the current player in a betting phase
\* that leaves the round open, the table's currentBet is the highest
\* currentBet among the players that have not folded, and is not lower than
\* before the action.
C37_TableBetIsHighestBet ==
    (/\ playedByTheButtons
     /\ last.kind \in Actions
     /\ last.result = "next"
     /\ last.state.phase \in {"PreFlop", "Flop", "Turn", "River"}
     /\ isMyTurn(last.state, last.name))
    => /\ gameState.currentBet = highestBet(gameState)
       /\ gameState.currentBet >= last.state.currentBet


\* ---- C38: the timeouts after a hand, under Spec

\* the names seated at a table
seated(gs) == {gs.players[i].name : i \in DOMAIN gs.players}

\* C38 as stated: when the timeout scheduled at the end of a hand runs, the
\* table keeps what was done to it since the hand ended: the players seated
\* are the same before and after, the hand number is the same, and a hand
\* dealt meanwhile is still in PreFlop.
C38_TimeoutKeepsLaterChanges ==
    [][(/\ timers # <<>>
        /\ timers' # timers
        /\ Len(timers') <= Len(timers)
        /\ Head(timers).stage = "win")
       => /\ seated(gameState') = seated(gameState)
          /\ gameState'.handNumber = gameState.handNumber
          /\ gameState.phase = "PreFlop" => gameState'.phase = "PreFlop"]_vars


\* ---- C39: the hole cards at the showdown, under Spec

\* C39 as stated: at a showdown every player that has not folded is
\* evaluated with the 2 cards dealt to that player when the hand started.
C39_ShowdownUsesDealtHoleCards ==
    (last.kind \in Actions /\ last.result = "showdown")
    => \A i \in DOMAIN last.state.players :
           (/\ notFolded(last.state.players[i])
            /\ ~(/\ last.state.players[i].name = last.name
                 /\ effectiveAction(last.state.players[i], last.kind) = "fold"))
           => /\ Len(holeCards[last.state.players[i].name]) = 2
              /\ holeCardsOf(last.state.dealtCards, i - 1)
                     = holeCards[last.state.players[i].name]


\* ---- C40: a round of calls ends, under Spec

\* calls tried before a round is taken not to close
MaxCalls == 8

\* from gs, with the player whose turn it is calling each time, a call closes
\* the round (the next street or the showdown) within k calls; a call that
\* is turned into a fold does not count
RECURSIVE closesByCalls(_, _)
closesByCalls(gs, k) ==
    IF k = 0 \/ currentPlayerOf(gs) = "" THEN FALSE
    ELSE LET actor == playerNamed(gs.players, currentPlayerOf(gs))
             r == performAction(gs, actor.name, "call", 0)
         IN IF effectiveAction(actor, "call") # "call" THEN FALSE
            ELSE IF r.result \in {"advance", "showdown"} THEN TRUE
            ELSE IF r.result = "next" THEN closesByCalls(r.state, k - 1)
            ELSE FALSE

\* C40 as stated: in every betting state reached by the buttons, the round
\* closes after finitely many calls by the players whose turn it is, and no
\* Active player's currentBet is above the table's currentBet, where a call
\* pays nothing and leaves the two apart.
C40_CallsCloseTheRound ==
    (/\ playedByTheButtons
     /\ gameState.phase \in {"PreFlop", "Flop", "Turn", "River"}
     /\ Len(SelectSeq(gameState.players, notFolded)) >= 2)
    => /\ \A i \in DOMAIN gameState.players :
              gameState.players[i].status = "Active"
              => gameState.players[i].currentBet <= gameState.currentBet
       /\ closesByCalls(gameState, MaxCalls)


====
